---- MODULE Spec2Model ----
(***************************************************************************)
(* kubectl-sdcio: the pattern matcher (pkg/utils/pattern.go), the blame    *)
(* tree filter (pkg/client/client.go) and the YANG search walk             *)
(* (pkg/cmd/search.go) as state machines.                                  *)
(*                                                                         *)
(* A Go string is a sequence of one-character strings, so that             *)
(* strings.ReplaceAll, strings.Split, regexp.QuoteMeta, strings.Join and   *)
(* the byte order of `<` are computed character by character.              *)
(***************************************************************************)
EXTENDS Integers, Sequences, FiniteSets, TLC

VARIABLES
    cmd,        \* which command this run executes: "match", "blame", "search" or "gen"
    pc,         \* position of the command: "start", then "done" (blame: "again")
    text,       \* MatchesPattern: the text argument
    pattern,    \* MatchesPattern: the pattern argument
    caseSensitive, \* MatchesPattern argument / SearchOptions.caseSensitive
    matched,    \* MatchesPattern: the value returned
    heap,       \* blame: the BlameTreeElement objects, by address 1..Len(heap)
    tree,       \* blame: address of the root GetBlameTree returned
    filter,     \* blame: the BlameFilter
    result,     \* blame: address GetFilteredBlameTree returned (Nil: nil)
    result2,    \* blame: address returned by filtering result once more
    origin,     \* blame (history): origin[a] is the node that node a was copied from
    examined,   \* blame (history): <<leaf address, fullPath>> per path match, in order
    schema,     \* search: the yang.Entry objects, by address; 1 is ms.RootEntry
    keyword,    \* search: SearchOptions.keyword
    includeDependencies, \* search: SearchOptions.includeDependencies
    order,      \* search (history): order[e], the order the walk ranged over e's Dir in
    orderIndex, \* search (history): the same for the walk of indexReferences
    printed,    \* search: the document outputResults wrote
    searchResults, \* search: the []SearchResult searchInYang returned
    visited,    \* search (history): the context the dependency-aware walk held at each entry
    yangPath,   \* gen: GenOptions.yangPath
    yangExists, \* gen: whether the file yangPath names exists
    modelPath,  \* gen: GenOptions.modelPath
    outputFormat, \* gen: GenOptions.outputFormat
    outputFile, \* gen: GenOptions.outputFile
    genEntry,   \* gen (history): the entry findEntryByPath returned (Nil: nil)
    genTemplate, \* gen (history): the template generateTemplateFromYang returned
    genErr,     \* gen: the error RunE returned, <<>> for nil
    stdout,     \* gen: the documents written to o.Out
    outFile     \* gen: the documents written to the file outputFile

vars == <<cmd, pc, text, pattern, caseSensitive, matched,
          heap, tree, filter, result, result2, origin, examined,
          schema, keyword, includeDependencies, order, orderIndex, searchResults, printed, visited,
          yangPath, yangExists, modelPath, outputFormat, outputFile, genEntry, genTemplate, genErr,
          stdout, outFile>>
matchVars == <<text, pattern, matched>>
blameVars == <<heap, tree, filter, result, result2, origin, examined>>
searchVars == <<schema, keyword, includeDependencies, order, orderIndex, searchResults, printed,
                visited>>
genVars == <<yangPath, yangExists, modelPath, outputFormat, outputFile, genEntry, genTemplate, genErr,
             stdout, outFile>>

(***************************************************************************)
(* Bounds of the explored inputs.                                          *)
(***************************************************************************)
MaxTextLen == 3
MaxPatLen == 3
MaxNodes == 3
MaxEntries == 3
MaxGenEntries == 3

\* characters of the explored texts and patterns
TextChars == {"a", "A", ".", "+", "\\"}
PatChars == {"a", "A", ".", "+", "*"}

RECURSIVE SeqsUpTo(_, _)
SeqsUpTo(S, n) ==
    IF n = 0 THEN {<<>>}
    ELSE LET shorter == SeqsUpTo(S, n - 1)
         IN  shorter \cup {Append(s, c) : s \in {t \in shorter : Len(t) = n - 1}, c \in S}

(***************************************************************************)
(* Strings.                                                                *)
(***************************************************************************)
\* unicode.ToLower on one character
LowerChar(c) ==
    CASE c = "A" -> "a"
      [] c = "B" -> "b"
      [] c = "C" -> "c"
      [] c = "D" -> "d"
      [] c = "E" -> "e"
      [] c = "F" -> "f"
      [] c = "G" -> "g"
      [] c = "H" -> "h"
      [] c = "I" -> "i"
      [] c = "J" -> "j"
      [] c = "K" -> "k"
      [] c = "L" -> "l"
      [] c = "M" -> "m"
      [] c = "N" -> "n"
      [] c = "O" -> "o"
      [] c = "P" -> "p"
      [] c = "Q" -> "q"
      [] c = "R" -> "r"
      [] c = "S" -> "s"
      [] c = "T" -> "t"
      [] c = "U" -> "u"
      [] c = "V" -> "v"
      [] c = "W" -> "w"
      [] c = "X" -> "x"
      [] c = "Y" -> "y"
      [] c = "Z" -> "z"
      [] OTHER -> c

\* strings.ToLower
ToLower(s) == [i \in 1..Len(s) |-> LowerChar(s[i])]

\* strings.Contains
Contains(s, sub) ==
    \E i \in 0..(Len(s) - Len(sub)) : SubSeq(s, i + 1, i + Len(sub)) = sub

\* strings.ReplaceAll(pattern, ".", "\\.")
RECURSIVE EscapeDots(_)
EscapeDots(s) ==
    IF s = <<>> THEN <<>>
    ELSE (IF Head(s) = "." THEN <<"\\", ".">> ELSE <<Head(s)>>) \o EscapeDots(Tail(s))

\* strings.Split(s, sep) for a one-character separator: Count(sep)+1 components
RECURSIVE SplitOn(_, _)
SplitOn(s, sep) ==
    IF \A i \in 1..Len(s) : s[i] # sep THEN <<s>>
    ELSE LET i == CHOOSE j \in 1..Len(s) : s[j] = sep /\ \A k \in 1..(j - 1) : s[k] # sep
         IN  <<SubSeq(s, 1, i - 1)>> \o SplitOn(SubSeq(s, i + 1, Len(s)), sep)

\* strings.Join
RECURSIVE Join(_, _)
Join(parts, sep) ==
    IF parts = <<>> THEN <<>>
    ELSE IF Len(parts) = 1 THEN parts[1]
    ELSE parts[1] \o sep \o Join(Tail(parts), sep)

\* the characters regexp.QuoteMeta escapes: \.+*?()|[]{}^$
RegexpSpecial == {"\\", ".", "+", "*", "?", "(", ")", "|", "[", "]", "{", "}", "^", "$"}

\* regexp.QuoteMeta
RECURSIVE QuoteMeta(_)
QuoteMeta(s) ==
    IF s = <<>> THEN <<>>
    ELSE (IF Head(s) \in RegexpSpecial THEN <<"\\", Head(s)>> ELSE <<Head(s)>>)
         \o QuoteMeta(Tail(s))

(***************************************************************************)
(* pkg/utils/pattern.go                                                    *)
(***************************************************************************)
\* WildCardToRegexp: the pattern with its dots escaped is split on "*"; one
\* component is returned as it is between ^ and $, several are each quoted
\* and joined with ".*".
WildCardToRegexp(pat) ==
    LET escaped == EscapeDots(pat)
        components == SplitOn(escaped, "*")
    IN  IF Len(components) = 1
        THEN <<"^">> \o escaped \o <<"$">>
        ELSE <<"^">>
             \o Join([i \in 1..Len(components) |-> QuoteMeta(components[i])], <<".", "*">>)
             \o <<"$">>

(***************************************************************************)
(* regexp.MatchString, for the expressions WildCardToRegexp can return on  *)
(* patterns over PatChars and on the paths search prints: literals, "\"    *)
(* before a punctuation character, ".", "^", "$", the repetition           *)
(* operators, a leading "(?i)" and a character class [...] of plain        *)
(* characters (no "^", "-", "\" or "]" in it).  A compiled expression is   *)
(* a sequence of items [k, c, q]: k is "lit", "any", "bol", "eol" or       *)
(* "class", c the literal character or the set of characters of the class, *)
(* q the repetition ("1", "+", "*", "?").                                  *)
(***************************************************************************)
RepeatOps == {"*", "+", "?"}

\* regexp/syntax parse loop (Perl flags): a repetition operator right after
\* another one is "invalid nested repetition operator", one with nothing
\* before it is "missing argument to repetition operator", a trailing
\* backslash is "trailing backslash at end of expression", a "[" without a
\* "]" after it is "missing closing ]".
RECURSIVE ParseFrom(_, _, _, _)
ParseFrom(re, i, items, afterRepeat) ==
    IF i > Len(re) THEN [err |-> FALSE, items |-> items]
    ELSE LET c == re[i]
         IN  IF c \in RepeatOps
             THEN IF afterRepeat \/ items = <<>>
                  THEN [err |-> TRUE, items |-> <<>>]
                  ELSE LET n == Len(items)
                           lazy == i < Len(re) /\ re[i + 1] = "?"
                       IN  ParseFrom(re, IF lazy THEN i + 2 ELSE i + 1,
                                     [items EXCEPT ![n].q = c], TRUE)
             ELSE IF c = "\\"
             THEN IF i = Len(re)
                  THEN [err |-> TRUE, items |-> <<>>]
                  ELSE ParseFrom(re, i + 2,
                                 Append(items, [k |-> "lit", c |-> re[i + 1], q |-> "1"]),
                                 FALSE)
             ELSE IF c = "["
             THEN IF \E j \in (i + 2)..Len(re) : re[j] = "]"
                  THEN LET close == CHOOSE j \in (i + 2)..Len(re) :
                                        re[j] = "]" /\ \A k \in (i + 2)..(j - 1) : re[k] # "]"
                       IN  ParseFrom(re, close + 1,
                                     Append(items,
                                            [k |-> "class",
                                             c |-> {re[j] : j \in (i + 1)..(close - 1)},
                                             q |-> "1"]),
                                     FALSE)
                  ELSE [err |-> TRUE, items |-> <<>>]
             ELSE ParseFrom(re, i + 1,
                            Append(items,
                                   [k |-> CASE c = "." -> "any"
                                            [] c = "^" -> "bol"
                                            [] c = "$" -> "eol"
                                            [] OTHER -> "lit",
                                    c |-> c, q |-> "1"]),
                            FALSE)

FoldPrefix == <<"(", "?", "i", ")">>

\* regexp.Compile: [err, fold, items]
Compile(re) ==
    LET fold == Len(re) >= 4 /\ SubSeq(re, 1, 4) = FoldPrefix
        parsed == ParseFrom(re, IF fold THEN 5 ELSE 1, <<>>, FALSE)
    IN  [err |-> parsed.err, fold |-> fold, items |-> parsed.items]

\* one character against one item
CharMatches(item, ch, fold) ==
    \/ item.k = "any"
    \/ item.k = "lit" /\ (IF fold THEN LowerChar(ch) = LowerChar(item.c) ELSE ch = item.c)
    \/ item.k = "class" /\ (IF fold THEN \E x \in item.c : LowerChar(ch) = LowerChar(x)
                              ELSE ch \in item.c)

\* the items from k on match a run of t that starts after position pos
RECURSIVE MatchItems(_, _, _, _, _)
MatchItems(items, k, t, pos, fold) ==
    IF k > Len(items) THEN TRUE
    ELSE LET it == items[k]
             width0 == it.k \in {"bol", "eol"}
             here == IF it.k = "bol" THEN pos = 0
                     ELSE IF it.k = "eol" THEN pos = Len(t)
                     ELSE pos < Len(t) /\ CharMatches(it, t[pos + 1], fold)
             next == IF width0 THEN pos ELSE pos + 1
         IN  CASE it.q = "1" -> here /\ MatchItems(items, k + 1, t, next, fold)
               [] it.q = "?" -> \/ MatchItems(items, k + 1, t, pos, fold)
                                \/ here /\ MatchItems(items, k + 1, t, next, fold)
               [] it.q = "+" -> here /\ (\/ MatchItems(items, k + 1, t, next, fold)
                                         \/ ~width0 /\ MatchItems(items, k, t, next, fold))
               [] it.q = "*" -> \/ MatchItems(items, k + 1, t, pos, fold)
                                \/ here /\ ~width0 /\ MatchItems(items, k, t, next, fold)

\* (*Regexp).MatchString: the expression matches somewhere in t
RegexpMatch(compiled, t) ==
    \E start \in 0..Len(t) : MatchItems(compiled.items, 1, t, start, compiled.fold)

\* MatchesPattern: the empty pattern matches everything; otherwise the
\* regular expression decides, and a compile error falls back to Contains.
MatchesPattern(t, pat, cs) ==
    IF pat = <<>> THEN TRUE
    ELSE LET regexPattern == IF cs THEN WildCardToRegexp(pat)
                             ELSE FoldPrefix \o WildCardToRegexp(pat)
             compiled == Compile(regexPattern)
         IN  IF compiled.err
             THEN IF cs THEN Contains(t, pat)
                  ELSE Contains(ToLower(t), ToLower(pat))
             ELSE RegexpMatch(compiled, t)

(***************************************************************************)
(* pkg/client/client.go: the blame tree filter.                            *)
(*                                                                         *)
(* The memory a call works on is m = [nodes, arrs, origin, examined]:      *)
(* nodes are the BlameTreeElement objects by address, arrs the backing     *)
(* arrays of the []string path slices.  A slice is [a, n, c]: backing      *)
(* array, length, capacity.                                                *)
(***************************************************************************)
Nil == 0
NoValue == "nil"

EmptySlice == [a |-> 0, n |-> 0, c |-> 0]

\* the elements of slice s
SliceVal(m, s) == IF s.n = 0 THEN <<>> ELSE SubSeq(m.arrs[s.a], 1, s.n)

\* k zero values of a []string backing array
RECURSIVE ZeroStrings(_)
ZeroStrings(k) == IF k <= 0 THEN <<>> ELSE <<<<>>>> \o ZeroStrings(k - 1)

\* append(s, x): written in place when the capacity allows, otherwise into
\* a new backing array of doubled capacity
GoAppend(m, s, x) ==
    IF s.n < s.c
    THEN LET arr == m.arrs[s.a]
             written == SubSeq(arr, 1, s.n) \o <<x>> \o SubSeq(arr, s.n + 2, Len(arr))
         IN  [m |-> [m EXCEPT !.arrs[s.a] = written],
              s |-> [s EXCEPT !.n = s.n + 1]]
    ELSE LET newcap == IF s.c = 0 THEN 1 ELSE 2 * s.c
             arr == SliceVal(m, s) \o <<x>> \o ZeroStrings(newcap - s.n - 1)
         IN  [m |-> [m EXCEPT !.arrs = Append(@, arr)],
              s |-> [a |-> Len(m.arrs) + 1, n |-> s.n + 1, c |-> newcap]]

\* (*BlameTreeElement).IsDeviated
IsDeviated(n) == n.DeviationValue # NoValue /\ n.DeviationValue # n.Value

\* matchesFilter with the owner pattern matched against the node's name
matchesFilter_OwnerOnName(node, path, f, m) ==
    LET n == m.nodes[node]
        leafMatches == IF f.LeafName # <<>>
                       THEN MatchesPattern(n.Name, f.LeafName, FALSE) ELSE TRUE
        ownerMatches == IF f.Owner # <<>>
                        THEN MatchesPattern(n.Name, f.Owner, FALSE) ELSE TRUE
        ap == GoAppend(m, path, n.Name)
        fullPath == Join(SliceVal(ap.m, ap.s), <<"/">>)
        pathMatches == IF f.Path # <<>>
                       THEN MatchesPattern(fullPath, f.Path, FALSE) ELSE TRUE
        deviationMatches == IF f.Deviation THEN IsDeviated(n) ELSE TRUE
        m1 == IF f.Path # <<>>
              THEN [ap.m EXCEPT !.examined = Append(@, <<node, fullPath>>)]
              ELSE m
    IN  [m |-> m1,
         r |-> leafMatches /\ ownerMatches /\ pathMatches /\ deviationMatches]

\* matchesFilter reading the slot behind path where append would write the
\* name of the node in place
matchesFilter_StaleSlot(node, path, f, m) ==
    LET n == m.nodes[node]
        leafMatches == IF f.LeafName # <<>>
                       THEN MatchesPattern(n.Name, f.LeafName, FALSE) ELSE TRUE
        ownerMatches == IF f.Owner # <<>>
                        THEN MatchesPattern(n.Owner, f.Owner, FALSE) ELSE TRUE
        ap == GoAppend(m, path, n.Name)
        fullPath == IF path.n < path.c
                    THEN Join(SubSeq(m.arrs[path.a], 1, path.n + 1), <<"/">>)
                    ELSE Join(SliceVal(ap.m, ap.s), <<"/">>)
        pathMatches == IF f.Path # <<>>
                       THEN MatchesPattern(fullPath, f.Path, FALSE) ELSE TRUE
        deviationMatches == IF f.Deviation THEN IsDeviated(n) ELSE TRUE
        m1 == IF f.Path # <<>>
              THEN [ap.m EXCEPT !.examined = Append(@, <<node, fullPath>>)]
              ELSE m
    IN  [m |-> m1,
         r |-> leafMatches /\ ownerMatches /\ pathMatches /\ deviationMatches]

\* matchesFilter: [m, r], r the conjunction of the four checks
matchesFilter(node, path, f, m) ==
    LET n == m.nodes[node]
        leafMatches == IF f.LeafName # <<>>
                       THEN MatchesPattern(n.Name, f.LeafName, FALSE) ELSE TRUE
        ownerMatches == IF f.Owner # <<>>
                        THEN MatchesPattern(n.Owner, f.Owner, FALSE) ELSE TRUE
        ap == GoAppend(m, path, n.Name)
        fullPath == Join(SliceVal(ap.m, ap.s), <<"/">>)
        pathMatches == IF f.Path # <<>>
                       THEN MatchesPattern(fullPath, f.Path, FALSE) ELSE TRUE
        deviationMatches == IF f.Deviation THEN IsDeviated(n) ELSE TRUE
        m1 == IF f.Path # <<>>
              THEN [ap.m EXCEPT !.examined = Append(@, <<node, fullPath>>)]
              ELSE m
    IN  [m |-> m1,
         r |-> leafMatches /\ ownerMatches /\ pathMatches /\ deviationMatches]

RECURSIVE filterBlameTree(_, _, _, _)
RECURSIVE filterChilds(_, _, _, _, _, _)

\* the loop of filterBlameTree putting each surviving child in front
filterChilds_Prepend(childs, i, newPath, f, m, filteredChilds) ==
    IF i > Len(childs) THEN [m |-> m, kids |-> filteredChilds]
    ELSE LET fc == filterBlameTree(childs[i], newPath, f, m)
         IN  filterChilds(childs, i + 1, newPath, f, fc.m,
                          IF fc.r # Nil THEN <<fc.r>> \o filteredChilds
                          ELSE filteredChilds)

\* the loop of filterBlameTree over node.Childs from index i: [m, kids]
filterChilds(childs, i, newPath, f, m, filteredChilds) ==
    IF i > Len(childs) THEN [m |-> m, kids |-> filteredChilds]
    ELSE LET fc == filterBlameTree(childs[i], newPath, f, m)
         IN  filterChilds(childs, i + 1, newPath, f, fc.m,
                          IF fc.r # Nil THEN Append(filteredChilds, fc.r)
                          ELSE filteredChilds)

\* filterBlameTree returning a matching leaf of the input itself
filterBlameTree_SharedLeaf(node, currentPath, f, m) ==
    IF node = Nil THEN [m |-> m, r |-> Nil]
    ELSE LET n == m.nodes[node]
             filteredNode == Len(m.nodes) + 1
             m1 == [m EXCEPT !.nodes = Append(@, [Name |-> n.Name,
                                                   Owner |-> n.Owner,
                                                   Value |-> n.Value,
                                                   DeviationValue |-> n.DeviationValue,
                                                   Childs |-> <<>>]),
                             !.origin = Append(@, node)]
         IN  IF Len(n.Childs) = 0
             THEN LET mf == matchesFilter(node, currentPath, f, m1)
                  IN  [m |-> mf.m, r |-> IF mf.r THEN node ELSE Nil]
             ELSE LET ap == GoAppend(m1, currentPath, n.Name)
                      loop == filterChilds(n.Childs, 1, ap.s, f, ap.m, <<>>)
                  IN  IF Len(loop.kids) > 0
                      THEN [m |-> [loop.m EXCEPT !.nodes[filteredNode].Childs = loop.kids],
                            r |-> filteredNode]
                      ELSE [m |-> loop.m, r |-> Nil]

\* filterBlameTree keeping a node with children whether or not a child survives
filterBlameTree_KeepEmpty(node, currentPath, f, m) ==
    IF node = Nil THEN [m |-> m, r |-> Nil]
    ELSE LET n == m.nodes[node]
             filteredNode == Len(m.nodes) + 1
             m1 == [m EXCEPT !.nodes = Append(@, [Name |-> n.Name,
                                                   Owner |-> n.Owner,
                                                   Value |-> n.Value,
                                                   DeviationValue |-> n.DeviationValue,
                                                   Childs |-> <<>>]),
                             !.origin = Append(@, node)]
         IN  IF Len(n.Childs) = 0
             THEN LET mf == matchesFilter(node, currentPath, f, m1)
                  IN  [m |-> mf.m, r |-> IF mf.r THEN filteredNode ELSE Nil]
             ELSE LET ap == GoAppend(m1, currentPath, n.Name)
                      loop == filterChilds(n.Childs, 1, ap.s, f, ap.m, <<>>)
                  IN  IF Len(loop.kids) >= 0
                      THEN [m |-> [loop.m EXCEPT !.nodes[filteredNode].Childs = loop.kids],
                            r |-> filteredNode]
                      ELSE [m |-> loop.m, r |-> Nil]

\* filterBlameTree: [m, r], r the address of the filtered node or Nil
filterBlameTree(node, currentPath, f, m) ==
    IF node = Nil THEN [m |-> m, r |-> Nil]
    ELSE LET n == m.nodes[node]
             filteredNode == Len(m.nodes) + 1
             m1 == [m EXCEPT !.nodes = Append(@, [Name |-> n.Name,
                                                   Owner |-> n.Owner,
                                                   Value |-> n.Value,
                                                   DeviationValue |-> n.DeviationValue,
                                                   Childs |-> <<>>]),
                             !.origin = Append(@, node)]
         IN  IF Len(n.Childs) = 0
             THEN LET mf == matchesFilter(node, currentPath, f, m1)
                  IN  [m |-> mf.m, r |-> IF mf.r THEN filteredNode ELSE Nil]
             ELSE LET ap == GoAppend(m1, currentPath, n.Name)
                      loop == filterChilds(n.Childs, 1, ap.s, f, ap.m, <<>>)
                  IN  IF Len(loop.kids) > 0
                      THEN [m |-> [loop.m EXCEPT !.nodes[filteredNode].Childs = loop.kids],
                            r |-> filteredNode]
                      ELSE [m |-> loop.m, r |-> Nil]

\* the test of GetFilteredBlameTree for "no filter criteria"
NoCriteria(f) ==
    f.LeafName = <<>> /\ f.Owner = <<>> /\ f.Path = <<>> /\ ~f.Deviation

\* GetFilteredBlameTree without the shortcut for an empty filter
GetFilteredBlameTree_AlwaysFilter(root, f, m) ==
    filterBlameTree(root, EmptySlice, f, m)

\* GetFilteredBlameTree after GetBlameTree returned root: [m, r]
GetFilteredBlameTree(root, f, m) ==
    IF NoCriteria(f) THEN [m |-> m, r |-> root]
    ELSE filterBlameTree(root, EmptySlice, f, m)

(***************************************************************************)
(* pkg/cmd/search.go, pkg/cmd/search_types.go and the dependency collector.*)
(*                                                                         *)
(* A schema is a sequence of yang.Entry records, by address.  Entry.Dir is *)
(* a Go map: it is the set of the children's addresses, and every range    *)
(* over it runs in an order of its own, given by ord[address].             *)
(***************************************************************************)
NoType == [Kind |-> "nil", Name |-> <<>>, Path |-> <<>>, OptionalInstance |-> FALSE,
           Type |-> <<>>, Range |-> <<>>,
      Pattern |-> <<>>, Enum |-> {}]
NoDeps == <<>>

\* the byte order of the characters of paths
AsciiOrder == <<"*", "+", ",", "-", ".", "/", "<", "=", ">", "?",
                "A", "B", "C", "D", "E", "F", "G", "H", "I", "J", "K", "L", "M",
                "N", "O", "P", "Q", "R", "S", "T", "U", "V", "W", "X", "Y", "Z",
                "[", "\\", "]", "_",
                "a", "b", "c", "d", "e", "f", "g", "h", "i", "j", "k", "l", "m",
                "n", "o", "p", "q", "r", "s", "t", "u", "v", "w", "x", "y", "z">>
CharRank(c) == CHOOSE i \in 1..Len(AsciiOrder) : AsciiOrder[i] = c

\* a < b on Go strings
StrLess(a, b) ==
    \/ Len(a) < Len(b) /\ SubSeq(b, 1, Len(a)) = a
    \/ \E i \in 1..Len(a) :
          /\ i <= Len(b)
          /\ SubSeq(a, 1, i - 1) = SubSeq(b, 1, i - 1)
          /\ CharRank(a[i]) < CharRank(b[i])

\* strings.Fields: the maximal runs of characters that are not white space
RECURSIVE Fields(_)
Fields(str) ==
    IF str = <<>> THEN <<>>
    ELSE IF Head(str) = " " THEN Fields(Tail(str))
    ELSE LET n == IF \E i \in 1..Len(str) : str[i] = " "
                  THEN (CHOOSE i \in 1..Len(str) :
                            str[i] = " " /\ \A j \in 1..(i - 1) : str[j] # " ") - 1
                  ELSE Len(str)
         IN  <<SubSeq(str, 1, n)>> \o Fields(SubSeq(str, n + 1, Len(str)))

KeyPlaceholder == <<"=", "<", "k", "e", "y", ">">>

buildPathPartWithKeys_FirstKey(entry) ==
    IF entry.Key = <<>> THEN entry.Name
    ELSE LET keys == Fields(entry.Key)
         IN  IF Len(keys) = 0 THEN entry.Name
             ELSE entry.Name \o <<"[">> \o keys[1] \o KeyPlaceholder \o <<"]">>

\* buildPathPartWithKeys: name[k1=<key>,k2=<key>] for an entry with keys
buildPathPartWithKeys(entry) ==
    IF entry.Key = <<>> THEN entry.Name
    ELSE LET keys == Fields(entry.Key)
         IN  IF Len(keys) = 0 THEN entry.Name
             ELSE entry.Name \o <<"[">>
                  \o Join([i \in 1..Len(keys) |-> keys[i] \o KeyPlaceholder], <<",">>)
                  \o <<"]">>

\* getEntryKeys
getEntryKeys(entry) == IF entry.Key = <<>> THEN <<>> ELSE Fields(entry.Key)

\* getEntryType
getEntryType(entry) ==
    CASE entry.Kind = "DirectoryEntry" -> <<"c", "o", "n", "t", "a", "i", "n", "e", "r">>
      [] entry.Kind = "LeafEntry" ->
            IF entry.ListAttr THEN <<"l", "e", "a", "f", "-", "l", "i", "s", "t">>
            ELSE IF entry.Type # NoType
                 THEN <<"l", "e", "a", "f", " ", "(">> \o entry.Type.Name \o <<")">>
                 ELSE <<"l", "e", "a", "f">>
      [] entry.Kind = "ChoiceEntry" -> <<"c", "h", "o", "i", "c", "e">>
      [] entry.Kind = "CaseEntry" -> <<"c", "a", "s", "e">>
      [] entry.Kind = "AnyDataEntry" -> <<"a", "n", "y", "d", "a", "t", "a">>
      [] entry.Kind = "AnyXMLEntry" -> <<"a", "n", "y", "x", "m", "l">>
      [] entry.Kind = "NotificationEntry" -> <<"n", "o", "t", "i", "f", "i", "c", "a", "t", "i", "o", "n">>
      [] entry.Kind = "InputEntry" -> <<"i", "n", "p", "u", "t">>
      [] entry.Kind = "OutputEntry" -> <<"o", "u", "t", "p", "u", "t">>
      [] OTHER -> IF entry.ListAttr THEN <<"l", "i", "s", "t">> ELSE <<"u", "n", "k", "n", "o", "w", "n">>

matchesSearch_Conjunction(o, entry, fullPath) ==
    /\ MatchesPattern(entry.Name, o.keyword, FALSE)
    /\ MatchesPattern(fullPath, o.keyword, FALSE)
    /\ entry.Description # <<>> => MatchesPattern(entry.Description, o.keyword, FALSE)

\* matchesSearch: the keyword against the name, the path and a non-empty
\* description, each time with caseSensitive = false
matchesSearch(o, entry, fullPath) ==
    LET leafMatches == MatchesPattern(entry.Name, o.keyword, FALSE)
        pathMatches == MatchesPattern(fullPath, o.keyword, FALSE)
        descMatches == IF entry.Description # <<>>
                       THEN MatchesPattern(entry.Description, o.keyword, FALSE)
                       ELSE FALSE
    IN  leafMatches \/ pathMatches \/ descMatches

NewResult(o, entry, fullPath, deps) ==
    [Path |-> fullPath,
     LeafName |-> entry.Name,
     Type |-> getEntryType(entry),
     Description |-> entry.Description,
     Keys |-> getEntryKeys(entry),
     Dependencies |-> deps]

RECURSIVE searchEntry(_, _, _, _, _, _)
RECURSIVE searchEntryDir(_, _, _, _, _, _, _)

\* the loop of searchEntry over entry.Dir, in the order dir
searchEntryDir(o, sch, dir, i, pathParts, results, ord) ==
    IF i > Len(dir) THEN results
    ELSE searchEntryDir(o, sch, dir, i + 1, pathParts,
                        searchEntry(o, sch, dir[i], pathParts, results, ord), ord)

\* searchEntry: the results with those of entry e and below appended.
\* pathParts is a copy of currentPath, so no backing array is shared.
searchEntry(o, sch, e, currentPath, results, ord) ==
    IF e = Nil THEN results
    ELSE LET entry == sch[e]
             pathParts == IF entry.Name # <<>>
                          THEN Append(currentPath, buildPathPartWithKeys(entry))
                          ELSE currentPath
             fullPath == <<"/">> \o Join(pathParts, <<"/">>)
             found == IF matchesSearch(o, entry, fullPath)
                      THEN Append(results, NewResult(o, entry, fullPath, NoDeps))
                      ELSE results
         IN  searchEntryDir(o, sch, ord[e], 1, pathParts, found, ord)

(***************************************************************************)
(* PathContext (search_types.go).  The memory a walk works on is           *)
(* m = [arrs, visited]: arrs are the backing arrays of the pathParts and   *)
(* listKeys slices, visited the contexts the walk held, node by node.      *)
(* A context is [pathParts, listKeys], two slices [a, n, c].               *)
(***************************************************************************)
NewPathContext == [pathParts |-> EmptySlice, listKeys |-> EmptySlice]

\* make([]T, len(s)) followed by copy(made, s)
MakeCopy(m, s) ==
    [m |-> [m EXCEPT !.arrs = Append(@, SliceVal(m, s))],
     s |-> [a |-> Len(m.arrs) + 1, n |-> s.n, c |-> s.n]]

\* Clone with the slices of the receiver themselves: no make, no copy
Clone_Shared(m, pc0) == [m |-> m, pc |-> pc0]

Clone(m, pc0) ==
    LET parts == MakeCopy(m, pc0.pathParts)
        keys == MakeCopy(parts.m, pc0.listKeys)
    IN  [m |-> keys.m, pc |-> [pathParts |-> parts.s, listKeys |-> keys.s]]

AddPathPart(m, pc0, part) ==
    LET ap == GoAppend(m, pc0.pathParts, part)
    IN  [m |-> ap.m, pc |-> [pc0 EXCEPT !.pathParts = ap.s]]

AddListKey(m, pc0, listPath, keyNames) ==
    LET ap == GoAppend(m, pc0.listKeys,
                       [ListPath |-> listPath, KeyNames |-> keyNames, Level |-> 0])
    IN  [m |-> ap.m, pc |-> [pc0 EXCEPT !.listKeys = ap.s]]

\* IncrementKeyLevels: pc.listKeys[i].Level++ in the backing array
IncrementKeyLevels(m, pc0) ==
    IF pc0.listKeys.n = 0 THEN m
    ELSE LET arr == m.arrs[pc0.listKeys.a]
         IN  [m EXCEPT !.arrs[pc0.listKeys.a] =
                 [i \in 1..Len(arr) |->
                     IF i <= pc0.listKeys.n
                     THEN [arr[i] EXCEPT !.Level = @ + 1]
                     ELSE arr[i]]]

GetFullPath(m, pc0) ==
    IF pc0.pathParts.n = 0 THEN <<"/">>
    ELSE <<"/">> \o Join(SliceVal(m, pc0.pathParts), <<"/">>)

(***************************************************************************)
(* The dependency collector.                                               *)
(***************************************************************************)
\* strings.TrimSpace
RECURSIVE TrimSpace(_)
TrimSpace(str) ==
    IF str = <<>> THEN <<>>
    ELSE IF Head(str) = " " THEN TrimSpace(Tail(str))
    ELSE IF str[Len(str)] = " " THEN TrimSpace(SubSeq(str, 1, Len(str) - 1))
    ELSE str

\* the loop of normalizeXPath: the characters outside [...] predicates
RECURSIVE DropPredicates(_, _)
DropPredicates(str, inPredicate) ==
    IF str = <<>> THEN <<>>
    ELSE IF Head(str) = "[" THEN DropPredicates(Tail(str), TRUE)
    ELSE IF Head(str) = "]" THEN DropPredicates(Tail(str), FALSE)
    ELSE IF ~inPredicate THEN <<Head(str)>> \o DropPredicates(Tail(str), inPredicate)
    ELSE DropPredicates(Tail(str), inPredicate)

\* normalizeXPath: a path starting with "../" is returned as it is
normalizeXPath(xpath) ==
    LET trimmed == TrimSpace(xpath)
    IN  IF Len(trimmed) >= 3 /\ SubSeq(trimmed, 1, 3) = <<".", ".", "/">>
        THEN trimmed
        ELSE DropPredicates(trimmed, FALSE)

\* reverseRefIndex[targetPath] = append(reverseRefIndex[targetPath], sourcePath)
IndexAdd(idx, targetPath, sourcePath) ==
    IF targetPath \in DOMAIN idx
    THEN [k \in DOMAIN idx |->
            IF k = targetPath THEN Append(idx[k], sourcePath) ELSE idx[k]]
    ELSE [k \in DOMAIN idx \cup {targetPath} |->
            IF k = targetPath THEN <<sourcePath>> ELSE idx[k]]

RECURSIVE indexTypeReferences(_, _, _)
RECURSIVE indexUnionMembers(_, _, _, _)

indexUnionMembers(types, i, sourcePath, idx) ==
    IF i > Len(types) THEN idx
    ELSE indexUnionMembers(types, i + 1, sourcePath,
                           indexTypeReferences(types[i], sourcePath, idx))

\* indexTypeReferences: the index with the leafrefs of yangType added
indexTypeReferences(yangType, sourcePath, idx) ==
    IF yangType = NoType THEN idx
    ELSE LET idx1 == IF yangType.Kind = "leafref" /\ yangType.Path # <<>>
                     THEN IndexAdd(idx, normalizeXPath(yangType.Path), sourcePath)
                     ELSE idx
         IN  IF yangType.Kind = "union" /\ Len(yangType.Type) > 0
             THEN indexUnionMembers(yangType.Type, 1, sourcePath, idx1)
             ELSE idx1

RECURSIVE indexReferences(_, _, _, _, _)
RECURSIVE indexReferencesDir(_, _, _, _, _, _)

indexReferencesDir(sch, dir, i, pathParts, m, ord) ==
    IF i > Len(dir) THEN m
    ELSE indexReferencesDir(sch, dir, i + 1, pathParts,
                            indexReferences(sch, dir[i], pathParts, m, ord), ord)

\* indexReferences: m = [arrs, idx] after entry e and below are indexed;
\* pathParts is currentPath itself, extended with append
indexReferences(sch, e, currentPath, m, ord) ==
    IF e = Nil THEN m
    ELSE LET entry == sch[e]
             ap == IF entry.Name # <<>> THEN GoAppend(m, currentPath, entry.Name)
                   ELSE [m |-> m, s |-> currentPath]
             fullPath == <<"/">> \o Join(SliceVal(ap.m, ap.s), <<"/">>)
             m1 == IF entry.Type # NoType
                   THEN [ap.m EXCEPT !.idx = indexTypeReferences(entry.Type, fullPath, @)]
                   ELSE ap.m
         IN  indexReferencesDir(sch, ord[e], 1, ap.s, m1, ord)

\* BuildReverseReferenceIndex: the index of the whole tree
BuildReverseReferenceIndex(sch, rootEntry, ord) ==
    indexReferences(sch, rootEntry, EmptySlice, [arrs |-> <<>>, idx |-> <<>>], ord).idx

RECURSIVE collectTypeReferences(_)
RECURSIVE collectUnionReferences(_, _, _)

collectUnionReferences(types, i, refs) ==
    IF i > Len(types) THEN refs
    ELSE collectUnionReferences(types, i + 1, refs \o collectTypeReferences(types[i]))

\* collectTypeReferences: one Reference per leafref and instance-identifier
collectTypeReferences(yangType) ==
    IF yangType = NoType THEN <<>>
    ELSE LET r1 == IF yangType.Kind = "leafref"
                   THEN <<[Type |-> <<"l", "e", "a", "f", "r", "e", "f">>,
                           TargetPath |-> normalizeXPath(yangType.Path),
                           Description |-> <<>>]>>
                   ELSE <<>>
             r2 == IF yangType.Kind = "instance-identifier"
                   THEN Append(r1, [Type |-> <<"i", "n", "s", "t", "a", "n", "c", "e", "-", "i", "d", "e", "n", "t", "i", "f", "i", "e", "r">>,
                                    TargetPath |-> <<"d", "y", "n", "a", "m", "i", "c">>,
                                    Description |-> IF yangType.OptionalInstance
                                                    THEN <<"o", "p", "t", "i", "o", "n", "a", "l", " ", "i", "n", "s", "t", "a", "n", "c", "e">>
                                                    ELSE <<"r", "e", "q", "u", "i", "r", "e", "d", " ", "i", "n", "s", "t", "a", "n", "c", "e">>])
                   ELSE r1
         IN  IF yangType.Kind = "union" /\ Len(yangType.Type) > 0
             THEN collectUnionReferences(yangType.Type, 1, r2)
             ELSE r2

\* collectReferences
collectReferences(entry) ==
    IF entry.Type = NoType THEN <<>> ELSE collectTypeReferences(entry.Type)

\* the error-message of a must statement: its first such sub-statement
ErrorMessageOf(stmt) ==
    IF \E i \in 1..Len(stmt.Subs) : stmt.Subs[i].Keyword = "error-message"
    THEN stmt.Subs[CHOOSE i \in 1..Len(stmt.Subs) :
                      /\ stmt.Subs[i].Keyword = "error-message"
                      /\ \A j \in 1..(i - 1) : stmt.Subs[j].Keyword # "error-message"].Argument
    ELSE <<>>

\* collectConstraints: the must and when sub-statements of the entry's node
RECURSIVE collectConstraints(_)
collectConstraints(stmts) ==
    IF stmts = <<>> THEN <<>>
    ELSE LET stmt == Head(stmts)
             this == CASE stmt.Keyword = "must" ->
                            <<[Type |-> "must", Expression |-> stmt.Argument,
                               ErrorMsg |-> ErrorMessageOf(stmt)]>>
                       [] stmt.Keyword = "when" ->
                            <<[Type |-> "when", Expression |-> stmt.Argument,
                               ErrorMsg |-> <<>>]>>
                       [] OTHER -> <<>>
         IN  this \o collectConstraints(Tail(stmts))

CollectDependencies_EmptyRecord(entry, context, m) ==
    LET copied == IF context.listKeys.n > 0
                  THEN MakeCopy(m, context.listKeys)
                  ELSE [m |-> m, s |-> EmptySlice]
    IN  [m |-> copied.m,
         deps |-> <<[RequiredKeys |-> copied.s,
                     References |-> collectReferences(entry),
                     ReferencedBy |-> <<>>,
                     Constraints |-> collectConstraints(entry.Stmts)]>>]

\* CollectDependencies: RequiredKeys is a copy of the context's listKeys;
\* NoDeps (nil) when keys, references and constraints are all empty
CollectDependencies(entry, context, m) ==
    LET copied == IF context.listKeys.n > 0
                  THEN MakeCopy(m, context.listKeys)
                  ELSE [m |-> m, s |-> EmptySlice]
        deps == [RequiredKeys |-> copied.s,
                 References |-> collectReferences(entry),
                 ReferencedBy |-> <<>>,
                 Constraints |-> collectConstraints(entry.Stmts)]
    IN  [m |-> copied.m,
         deps |-> IF deps.RequiredKeys.n = 0 /\ Len(deps.References) = 0
                     /\ Len(deps.Constraints) = 0
                  THEN NoDeps
                  ELSE <<deps>>]

\* PopulateReferencedBy
PopulateReferencedBy(results, idx) ==
    [i \in 1..Len(results) |->
        IF results[i].Path \in DOMAIN idx
        THEN LET old == IF results[i].Dependencies = NoDeps
                        THEN [RequiredKeys |-> <<>>, References |-> <<>>,
                              ReferencedBy |-> <<>>, Constraints |-> <<>>]
                        ELSE results[i].Dependencies[1]
             IN  [results[i] EXCEPT !.Dependencies =
                                        <<[old EXCEPT !.ReferencedBy = idx[results[i].Path]]>>]
        ELSE results[i]]

\* one statement after another: the call has returned, with value returned,
\* when the statements after it are run
AfterCall(returned, rest) == IF returned = returned THEN rest ELSE rest

RECURSIVE searchEntryWithContext(_, _, _, _, _, _, _)
RECURSIVE searchEntryWithContextDir(_, _, _, _, _, _, _, _)
RECURSIVE searchEntryWithContextAt(_, _, _, _, _, _)

searchEntryWithContextDir(o, sch, dir, i, context, results, ord, m) ==
    IF i > Len(dir) THEN [m |-> m, results |-> results]
    ELSE LET below == searchEntryWithContext(o, sch, dir[i], context, results, ord, m)
         IN  AfterCall(below,
                       searchEntryWithContextDir(o, sch, dir, i + 1, context,
                                                 below.results, ord, below.m))

\* searchEntryWithContext from the match on: keyed is the memory and the
\* context after the clone has got the path part and the list keys of e
searchEntryWithContextAt(o, sch, e, keyed, results, ord) ==
    LET entry == sch[e]
        fullPath == GetFullPath(keyed.m, keyed.pc)
        seen == [keyed.m EXCEPT !.visited =
                    Append(@, [entry |-> e,
                               pathParts |-> SliceVal(keyed.m, keyed.pc.pathParts),
                               listKeys |-> SliceVal(keyed.m, keyed.pc.listKeys)])]
    IN  IF matchesSearch(o, entry, fullPath)
        THEN LET collected == IF o.includeDependencies
                              THEN CollectDependencies(entry, keyed.pc, seen)
                              ELSE [m |-> seen, deps |-> NoDeps]
             IN  searchEntryWithContextDir(o, sch, ord[e], 1, keyed.pc,
                                           Append(results,
                                                  NewResult(o, entry, fullPath, collected.deps)),
                                           ord, IncrementKeyLevels(collected.m, keyed.pc))
        ELSE searchEntryWithContextDir(o, sch, ord[e], 1, keyed.pc, results, ord,
                                       IncrementKeyLevels(seen, keyed.pc))

\* the clone with the path part of the entry
searchEntryWithContextNamed(entry, cloned) ==
    IF entry.Name # <<>>
    THEN AddPathPart(cloned.m, cloned.pc, buildPathPartWithKeys(entry))
    ELSE cloned

\* and with the keys of the entry, a list
searchEntryWithContextKeyed(entry, named) ==
    IF entry.Name # <<>> /\ entry.ListAttr /\ entry.Key # <<>>
    THEN AddListKey(named.m, named.pc, GetFullPath(named.m, named.pc), Fields(entry.Key))
    ELSE named

\* searchEntryWithContext: the results with those of entry e and below
\* appended, each with the dependencies collected in its context; the
\* context held at e is noted in m.visited
searchEntryWithContext(o, sch, e, context, results, ord, m) ==
    IF e = Nil THEN [m |-> m, results |-> results]
    ELSE searchEntryWithContextAt(
             o, sch, e,
             searchEntryWithContextKeyed(
                 sch[e], searchEntryWithContextNamed(sch[e], Clone(m, context))),
             results, ord)

\* the memory of a walk before its first step
NewWalk == [arrs |-> <<>>, visited |-> <<>>]

\* the results as their holder reads them in memory m: RequiredKeys is the
\* content of the slice each result holds
ReadResults(m, results) ==
    [i \in 1..Len(results) |->
        IF results[i].Dependencies = NoDeps THEN results[i]
        ELSE [results[i] EXCEPT !.Dependencies =
                 <<[results[i].Dependencies[1] EXCEPT
                       !.RequiredKeys = SliceVal(m, @)]>>]]

\* searchWithDependencies: index, walk, then the reverse references
searchWithDependencies(o, sch, rootEntry, ord, ordIndex) ==
    LET idx == BuildReverseReferenceIndex(sch, rootEntry, ordIndex)
        walked == searchEntryWithContext(o, sch, rootEntry, NewPathContext, <<>>, ord,
                                         NewWalk)
    IN  PopulateReferencedBy(ReadResults(walked.m, walked.results), idx)

\* the contexts the walk of searchWithDependencies held, entry by entry;
\* none when searchInYang takes the plain walk
ContextsHeld(o, sch, rootEntry, ord) ==
    IF o.includeDependencies
    THEN searchEntryWithContext(o, sch, rootEntry, NewPathContext, <<>>, ord,
                                NewWalk).m.visited
    ELSE <<>>

\* sort.Slice on at most twelve elements: insertion sort, an element moving
\* left while less(it, its left neighbour)
RECURSIVE InsertLeft(_, _)
InsertLeft(sorted, x) ==
    IF sorted = <<>> THEN <<x>>
    ELSE IF StrLess(x.Path, sorted[Len(sorted)].Path)
         THEN Append(InsertLeft(SubSeq(sorted, 1, Len(sorted) - 1), x), sorted[Len(sorted)])
         ELSE Append(sorted, x)

RECURSIVE InsertionSort(_)
InsertionSort(data) ==
    IF data = <<>> THEN <<>>
    ELSE InsertLeft(InsertionSort(SubSeq(data, 1, Len(data) - 1)), data[Len(data)])

searchInYang_Unsorted(o, sch, rootEntry, ord, ordIndex) ==
    IF o.includeDependencies
    THEN searchWithDependencies(o, sch, rootEntry, ord, ordIndex)
    ELSE searchEntry(o, sch, rootEntry, <<>>, <<>>, ord)

\* searchInYang once the module is loaded: walk, then sort by path
searchInYang(o, sch, rootEntry, ord, ordIndex) ==
    LET found == IF o.includeDependencies
                 THEN searchWithDependencies(o, sch, rootEntry, ord, ordIndex)
                 ELSE searchEntry(o, sch, rootEntry, <<>>, <<>>, ord)
    IN  InsertionSort(found)

\* strings.TrimPrefix(path, "/")
TrimSlash(path) == IF path # <<>> /\ Head(path) = "/" THEN Tail(path) ELSE path

\* firstPart[:idx] for the first "[" of firstPart, firstPart without one
BeforeBracket(part) ==
    IF \E i \in 1..Len(part) : part[i] = "["
    THEN SubSeq(part, 1, (CHOOSE i \in 1..Len(part) :
                             part[i] = "[" /\ \A j \in 1..(i - 1) : part[j] # "[") - 1)
    ELSE part

\* utils.RemoveModulePrefix
RemoveModulePrefix(path, moduleName) ==
    IF moduleName = <<>> THEN path
    ELSE LET split == SplitOn(TrimSlash(path), "/")
             parts == IF BeforeBracket(split[1]) = moduleName THEN Tail(split) ELSE split
         IN  IF Len(parts) = 0 THEN <<"/">> ELSE <<"/">> \o Join(parts, <<"/">>)

\* outputResults: results is the slice after the call, written the document;
\* each format (text, json, yaml) lists keyword, count and the results in order
outputResults(o, results, moduleName) ==
    IF Len(results) = 0
    THEN [results |-> results,
          written |-> [keyword |-> o.keyword, count |-> 0, results |-> <<>>]]
    ELSE LET renamed == [i \in 1..Len(results) |->
                            [results[i] EXCEPT !.Path = RemoveModulePrefix(@, moduleName)]]
         IN  [results |-> renamed,
              written |-> [keyword |-> o.keyword, count |-> Len(renamed),
                           results |-> renamed]]

(***************************************************************************)
(* gen: the template of a schema entry.  A template value is tagged with   *)
(* its Go type; a map[string]interface{} is a function of its keys.        *)
(***************************************************************************)
VString(s) == [t |-> "string", v |-> s]
VInt(n) == [t |-> "int", v |-> n]
VBool(b) == [t |-> "bool", v |-> b]
VFloat(n) == [t |-> "float64", v |-> n]
VSlice(items) == [t |-> "slice", v |-> items]
VMap(m) == [t |-> "map", v |-> m]
NilValue == [t |-> "nil", v |-> <<>>]

EmptyMap == [k \in {} |-> NilValue]
MapPut(m, k, val) == [x \in DOMAIN m \cup {k} |-> IF x = k THEN val ELSE m[x]]

\* fmt's %v of a non-negative integer
RECURSIVE FormatInt(_)
FormatInt(n) ==
    LET digit == <<SubSeq(<<"0", "1", "2", "3", "4", "5", "6", "7", "8", "9">>, (n % 10) + 1, (n % 10) + 1)[1]>>
    IN  IF n < 10 THEN digit ELSE FormatInt(n \div 10) \o digit

\* fmt's %v of a default value
FormatValue(val) ==
    CASE val.t = "string" -> val.v
      [] val.t = "int" -> FormatInt(val.v)
      [] val.t = "float64" -> FormatInt(val.v)
      [] val.t = "bool" -> IF val.v THEN <<"t", "r", "u", "e">> ELSE <<"f", "a", "l", "s", "e">>

\* EnumType.Names: the names of the enumeration, sorted
EnumNames(enum) ==
    LET RECURSIVE Sorted(_)
        Sorted(rest) ==
            IF rest = {} THEN <<>>
            ELSE LET least == CHOOSE n \in rest : \A other \in rest \ {n} : StrLess(n, other)
                 IN  <<least>> \o Sorted(rest \ {least})
    IN  Sorted(enum)

getDefaultValueForType(yangType) ==
    CASE yangType.Kind = "string" -> VString(<<"s", "t", "r", "i", "n", "g", "_", "v", "a", "l", "u", "e">>)
      [] yangType.Kind \in {"int8", "int16", "int32", "int64"} -> VInt(0)
      [] yangType.Kind \in {"uint8", "uint16", "uint32", "uint64"} -> VInt(0)
      [] yangType.Kind = "boolean" -> VBool(FALSE)
      [] yangType.Kind = "decimal64" -> VFloat(0)
      [] yangType.Kind = "enumeration" ->
            IF Len(EnumNames(yangType.Enum)) > 0 THEN VString(EnumNames(yangType.Enum)[1])
            ELSE VString(<<"e", "n", "u", "m", "_", "v", "a", "l", "u", "e">>)
      [] yangType.Kind = "identityref" -> VString(<<"i", "d", "e", "n", "t", "i", "t", "y", "_", "v", "a", "l", "u", "e">>)
      [] yangType.Kind = "binary" -> VString(<<"b", "a", "s", "e", "6", "4", "_", "e", "n", "c", "o", "d", "e", "d", "_", "v", "a", "l", "u", "e">>)
      [] yangType.Kind = "empty" -> VString(<<>>)
      [] yangType.Kind = "union" -> VString(<<"u", "n", "i", "o", "n", "_", "v", "a", "l", "u", "e">>)
      [] yangType.Kind = "leafref" -> VString(<<"l", "e", "a", "f", "r", "e", "f", "_", "v", "a", "l", "u", "e">>)
      [] OTHER -> IF yangType.Name # <<>> THEN VString(<<"v", "a", "l", "u", "e", "_", "o", "f", "_", "t", "y", "p", "e", "_">> \o yangType.Name)
                  ELSE VString(<<"u", "n", "k", "n", "o", "w", "n", "_", "v", "a", "l", "u", "e">>)

generateLeafTemplate(entry) ==
    IF entry.Type = NoType THEN VString(<<"v", "a", "l", "u", "e">>)
    ELSE IF entry.ListAttr THEN VSlice(<<getDefaultValueForType(entry.Type)>>)
    ELSE LET value == getDefaultValueForType(entry.Type)
         IN  IF Len(entry.Type.Range) > 0
             THEN VString(FormatValue(value) \o <<" ", "<", "!", "-", "-", " ", "r", "a", "n", "g", "e", ":", " ">> \o entry.Type.Range \o <<" ", "-", "-", ">">>)
             ELSE IF Len(entry.Type.Pattern) > 0
             THEN VString(FormatValue(value) \o <<" ", "<", "!", "-", "-", " ", "p", "a", "t", "t", "e", "r", "n", ":", " ">> \o entry.Type.Pattern[1] \o <<" ", "-", "-", ">">>)
             ELSE value

\* the Go name of an entry kind, as %s prints it
KindString(kind) ==
    CASE kind = "DeviateEntry" -> <<"D", "e", "v", "i", "a", "t", "e">>
      [] OTHER -> <<"u", "n", "k", "n", "o", "w", "n">>

\* ListAttr of a list without min-elements and max-elements statements
DefaultMinElements == VInt(0)
DefaultMaxElements == [t |-> "uint64", v |-> "MaxUint64"]

\* the value of every child of entry, under the child's name
RECURSIVE processEntry(_, _, _)
childTemplates(sch, e, ord) ==
    [name \in {sch[c].Name : c \in sch[e].Dir} |->
        processEntry(sch, CHOOSE c \in sch[e].Dir : sch[c].Name = name, ord)]

generateListTemplate(sch, e, ord) ==
    LET entry == sch[e]
        withKeys == IF entry.Key # <<>>
                    THEN MapPut(EmptyMap, <<"_", "k", "e", "y", "s">>,
                                VSlice([i \in DOMAIN SplitOn(entry.Key, " ") |->
                                            VString(SplitOn(entry.Key, " ")[i])]))
                    ELSE EmptyMap
        withType == MapPut(withKeys, <<"_", "t", "y", "p", "e">>, VString(<<"l", "i", "s", "t">>))
        withMin == MapPut(withType, <<"_", "m", "i", "n", "_", "e", "l", "e", "m", "e", "n", "t", "s">>, DefaultMinElements)
        withMax == MapPut(withMin, <<"_", "m", "a", "x", "_", "e", "l", "e", "m", "e", "n", "t", "s">>, DefaultMaxElements)
    IN  VMap(MapPut(withMax, <<"_", "l", "i", "s", "t", "_", "i", "t", "e", "m", "_", "e", "x", "a", "m", "p", "l", "e">>, VMap(childTemplates(sch, e, ord))))

\* processEntry with the children of a notification returned as they are,
\* not under "_notification"
processEntry_NotificationFlat(sch, e, ord) ==
    LET entry == sch[e]
    IN  CASE entry.Kind = "DirectoryEntry" -> VMap(childTemplates(sch, e, ord))
          [] entry.Kind = "LeafEntry" -> generateLeafTemplate(entry)
          [] entry.Kind = "ChoiceEntry" ->
                IF entry.Dir # {} THEN processEntry(sch, ord[e][1], ord)
                ELSE VMap(MapPut(EmptyMap, <<"_", "c", "h", "o", "i", "c", "e">>, VString(<<"s", "e", "l", "e", "c", "t", "_", "c", "a", "s", "e">>)))
          [] entry.Kind = "CaseEntry" -> VMap(childTemplates(sch, e, ord))
          [] entry.Kind = "AnyDataEntry" ->
                VMap(MapPut(EmptyMap, <<"_", "a", "n", "y", "d", "a", "t", "a">>, VString(<<"a", "n", "y", "_", "d", "a", "t", "a", "_", "v", "a", "l", "u", "e">>)))
          [] entry.Kind = "AnyXMLEntry" ->
                VMap(MapPut(EmptyMap, <<"_", "a", "n", "y", "x", "m", "l">>, VString(<<"a", "n", "y", "_", "x", "m", "l", "_", "v", "a", "l", "u", "e">>)))
          [] entry.Kind = "NotificationEntry" -> VMap(childTemplates(sch, e, ord))
          [] entry.Kind \in {"InputEntry", "OutputEntry"} -> VMap(childTemplates(sch, e, ord))
          [] OTHER -> IF entry.ListAttr THEN generateListTemplate(sch, e, ord)
                      ELSE VString(<<"<", "!", "-", "-", " ">> \o KindString(entry.Kind) \o <<":", " ">> \o entry.Name \o <<" ", "-", "-", ">">>)

\* processEntry: ord[e][1] is the case the range over the Dir of the choice
\* e yields first
processEntry(sch, e, ord) ==
    LET entry == sch[e]
    IN  CASE entry.Kind = "DirectoryEntry" -> VMap(childTemplates(sch, e, ord))
          [] entry.Kind = "LeafEntry" -> generateLeafTemplate(entry)
          [] entry.Kind = "ChoiceEntry" ->
                IF entry.Dir # {} THEN processEntry(sch, ord[e][1], ord)
                ELSE VMap(MapPut(EmptyMap, <<"_", "c", "h", "o", "i", "c", "e">>, VString(<<"s", "e", "l", "e", "c", "t", "_", "c", "a", "s", "e">>)))
          [] entry.Kind = "CaseEntry" -> VMap(childTemplates(sch, e, ord))
          [] entry.Kind = "AnyDataEntry" ->
                VMap(MapPut(EmptyMap, <<"_", "a", "n", "y", "d", "a", "t", "a">>, VString(<<"a", "n", "y", "_", "d", "a", "t", "a", "_", "v", "a", "l", "u", "e">>)))
          [] entry.Kind = "AnyXMLEntry" ->
                VMap(MapPut(EmptyMap, <<"_", "a", "n", "y", "x", "m", "l">>, VString(<<"a", "n", "y", "_", "x", "m", "l", "_", "v", "a", "l", "u", "e">>)))
          [] entry.Kind = "NotificationEntry" ->
                VMap(MapPut(EmptyMap, <<"_", "n", "o", "t", "i", "f", "i", "c", "a", "t", "i", "o", "n">>, VMap(childTemplates(sch, e, ord))))
          [] entry.Kind \in {"InputEntry", "OutputEntry"} -> VMap(childTemplates(sch, e, ord))
          [] OTHER -> IF entry.ListAttr THEN generateListTemplate(sch, e, ord)
                      ELSE VString(<<"<", "!", "-", "-", " ">> \o KindString(entry.Kind) \o <<":", " ">> \o entry.Name \o <<" ", "-", "-", ">">>)

\* generateTemplate: the children of a directory, the map of any other entry
\* as it is, and any other value under the name of the entry
generateTemplate(sch, e, ord) ==
    IF e = Nil THEN NilValue
    ELSE IF sch[e].Kind = "DirectoryEntry" THEN VMap(childTemplates(sch, e, ord))
    ELSE LET processed == processEntry(sch, e, ord)
         IN  IF processed.t = "map" THEN processed
             ELSE VMap(MapPut(EmptyMap, sch[e].Name, processed))

(***************************************************************************)
(* gen: the model path, its key expressions and the entry it names.        *)
(***************************************************************************)
\* strings.HasPrefix
HasPrefix(s, prefix) == Len(s) >= Len(prefix) /\ SubSeq(s, 1, Len(prefix)) = prefix

\* strings.Trim(s, cutset)
RECURSIVE TrimLeft(_, _)
TrimLeft(s, cutset) ==
    IF s # <<>> /\ Head(s) \in cutset THEN TrimLeft(Tail(s), cutset) ELSE s

RECURSIVE TrimRight(_, _)
TrimRight(s, cutset) ==
    IF s # <<>> /\ s[Len(s)] \in cutset THEN TrimRight(SubSeq(s, 1, Len(s) - 1), cutset) ELSE s

Trim(s, cutset) == TrimRight(TrimLeft(s, cutset), cutset)

\* the least position from at on that holds ch, 0 if there is none
IndexFrom(s, at, ch) ==
    IF \E i \in at..Len(s) : s[i] = ch
    THEN CHOOSE i \in at..Len(s) : s[i] = ch /\ \A j \in at..(i - 1) : s[j] # ch
    ELSE 0

\* where =<[^>]+> ends when it starts at position eq of s, 0 if it does not match
PlaceholderEnd(s, eq) ==
    IF eq + 3 <= Len(s) /\ s[eq] = "=" /\ s[eq + 1] = "<" /\ s[eq + 2] # ">"
       /\ IndexFrom(s, eq + 3, ">") # 0
    THEN IndexFrom(s, eq + 3, ">")
    ELSE 0

\* where the match of \[[^\]]+=<[^>]+>\] that starts at position i of s ends,
\* 0 if there is none; [^\]]+ takes the longest run that lets the rest match
KeyExpressionEnd(s, i) ==
    LET starts == {eq \in (i + 2)..Len(s) :
                      /\ \A k \in (i + 1)..(eq - 1) : s[k] # "]"
                      /\ PlaceholderEnd(s, eq) # 0
                      /\ PlaceholderEnd(s, eq) < Len(s)
                      /\ s[PlaceholderEnd(s, eq) + 1] = "]"}
    IN  IF i > Len(s) \/ s[i] # "[" \/ starts = {} THEN 0
        ELSE PlaceholderEnd(s, CHOOSE eq \in starts : \A other \in starts : other <= eq) + 1

stripKeysFromPath_FirstOnly(path) ==
    IF \E i \in 1..Len(path) : KeyExpressionEnd(path, i) # 0
    THEN LET i == CHOOSE j \in 1..Len(path) :
                     KeyExpressionEnd(path, j) # 0
                     /\ \A k \in 1..(j - 1) : KeyExpressionEnd(path, k) = 0
         IN  SubSeq(path, 1, i - 1) \o SubSeq(path, KeyExpressionEnd(path, i) + 1, Len(path))
    ELSE path

\* stripKeysFromPath: every match of the expression, leftmost first, replaced
\* by the empty string
RECURSIVE stripKeysFromPath(_)
stripKeysFromPath(path) ==
    IF path = <<>> THEN <<>>
    ELSE IF KeyExpressionEnd(path, 1) # 0
         THEN stripKeysFromPath(SubSeq(path, KeyExpressionEnd(path, 1) + 1, Len(path)))
         ELSE <<Head(path)>> \o stripKeysFromPath(Tail(path))

\* where the match of ([^=\[,]+)=<[^>]+> that starts at position i of s
\* ends, 0 if there is none; run is the last position of the first group
KeyNameRun(s, i) ==
    IF \E j \in i..Len(s) : s[j] \in {"=", "[", ","}
    THEN (CHOOSE j \in i..Len(s) :
             s[j] \in {"=", "[", ","} /\ \A k \in i..(j - 1) : s[k] \notin {"=", "[", ","}) - 1
    ELSE Len(s)

KeyNameEnd(s, i) ==
    IF i > Len(s) \/ s[i] \in {"=", "[", ","} THEN 0
    ELSE PlaceholderEnd(s, KeyNameRun(s, i) + 1)

\* extractKeysFromPath: the first group of every match, leftmost first
RECURSIVE extractKeysFromPath(_)
extractKeysFromPath(path) ==
    IF path = <<>> THEN <<>>
    ELSE IF KeyNameEnd(path, 1) # 0
         THEN <<SubSeq(path, 1, KeyNameRun(path, 1))>>
              \o extractKeysFromPath(SubSeq(path, KeyNameEnd(path, 1) + 1, Len(path)))
         ELSE extractKeysFromPath(Tail(path))

\* shouldExclude
shouldExclude(name, excludeKeys) == \E i \in 1..Len(excludeKeys) : name = excludeKeys[i]

removeKeysFromTemplate_TopLevel(template, keys) ==
    [k \in {x \in DOMAIN template : ~shouldExclude(x, keys)} |-> template[k]]

\* removeKeysFromTemplate, on the map itself
RECURSIVE removeKeysFromTemplate(_, _)
removeKeysFromTemplate(template, keys) ==
    [k \in {x \in DOMAIN template : ~shouldExclude(x, keys)} |->
        IF template[k].t = "map" THEN VMap(removeKeysFromTemplate(template[k].v, keys))
        ELSE template[k]]

\* the child of entry current that the range over its Dir finds under the
\* name part, Nil if there is none
ChildNamed(sch, current, part) ==
    IF \E c \in sch[current].Dir : sch[c].Name = part
    THEN CHOOSE c \in sch[current].Dir : sch[c].Name = part
    ELSE Nil

RECURSIVE Navigate(_, _, _)
Navigate(sch, current, parts) ==
    IF parts = <<>> THEN current
    ELSE IF sch[current].Dir = {} THEN Nil
    ELSE IF ChildNamed(sch, current, Head(parts)) = Nil THEN Nil
    ELSE Navigate(sch, ChildNamed(sch, current, Head(parts)), Tail(parts))

findEntryByPath_Prefix(sch, rootEntry, path) ==
    LET RECURSIVE Walk(_, _)
        Walk(current, parts) ==
            IF parts = <<>> THEN current
            ELSE IF ChildNamed(sch, current, Head(parts)) = Nil THEN current
            ELSE Walk(ChildNamed(sch, current, Head(parts)), Tail(parts))
        trimmed == Trim(path, {"/"})
    IN  IF trimmed = <<>> \/ trimmed = <<"/">> THEN rootEntry
        ELSE Walk(rootEntry, SplitOn(trimmed, "/"))

\* findEntryByPath: the address of the entry, Nil for nil
findEntryByPath(sch, rootEntry, path) ==
    LET trimmed == Trim(path, {"/"})
    IN  IF trimmed = <<>> \/ trimmed = <<"/">> THEN rootEntry
        ELSE Navigate(sch, rootEntry, SplitOn(trimmed, "/"))
(***************************************************************************)
(* gen: from the options to the document.  A document marshalled by        *)
(* encoding/json or yaml is written as the pair of the encoding and the    *)
(* value it encodes; the XML document is the lines the command prints.     *)
(***************************************************************************)
\* filepath.Base of a path without trailing separators
RECURSIVE Base(_)
Base(path) ==
    IF IndexFrom(path, 1, "/") = 0 THEN path
    ELSE Base(SubSeq(path, IndexFrom(path, 1, "/") + 1, Len(path)))

\* the namespace statement of the module
Namespace(sch) == <<"u", "r", "n", ":">> \o sch[1].Name

PathNotFound(path) == <<"p", "a", "t", "h", " ", "'">> \o path \o <<"'", " ", "n", "o", "t", " ", "f", "o", "u", "n", "d", " ", "i", "n", " ", "Y", "A", "N", "G", " ", "m", "o", "d", "e", "l">>

\* generateTemplateFromYang on the file that holds the module sch: the
\* template and the error; ord is the order of every range over a Dir
generateTemplateFromYang(o, sch, ord) ==
    IF ~HasPrefix(Base(o.yangPath), sch[1].Name)
    THEN [entry |-> Nil, template |-> NilValue, err |-> <<"n", "o", " ", "v", "a", "l", "i", "d", " ", "m", "o", "d", "u", "l", "e", " ", "f", "o", "u", "n", "d", " ", "i", "n", " ", "Y", "A", "N", "G", " ", "f", "i", "l", "e">>]
    ELSE LET rootEntry == 1
             cleanPath == stripKeysFromPath(o.modelPath)
             entry == findEntryByPath(sch, rootEntry, cleanPath)
             template == generateTemplate(sch, entry, ord)
             keysToExclude == extractKeysFromPath(o.modelPath)
         IN  IF entry = Nil
             THEN [entry |-> Nil, template |-> NilValue, err |-> PathNotFound(o.modelPath)]
             ELSE IF Len(keysToExclude) > 0
                     /\ (o.outputFormat = <<"s", "d", "c", "-", "c", "o", "n", "f">> \/ o.outputFormat = <<"x", "m", "l">>)
             THEN [entry |-> entry,
                   template |-> VMap(removeKeysFromTemplate(template.v, keysToExclude)),
                   err |-> <<>>]
             ELSE [entry |-> entry, template |-> template, err |-> <<>>]

\* generateSDCConfig
generateSDCConfig(o, template) ==
    LET cleanPath == stripKeysFromPath(Trim(o.modelPath, {"/"}))
        pathParts == SplitOn(cleanPath, "/")
        name == IF o.modelPath # <<"/">> /\ o.modelPath # <<>> /\ cleanPath # <<>>
                THEN <<"g", "e", "n", "-", "s", "d", "c", "i", "o", "-", "c", "o", "n", "f", "i", "g", "-">> \o pathParts[Len(pathParts)]
                ELSE <<"g", "e", "n", "-", "s", "d", "c", "i", "o", "-", "c", "o", "n", "f", "i", "g">>
    IN  [apiVersion |-> <<"c", "o", "n", "f", "i", "g", ".", "s", "d", "c", "i", "o", ".", "d", "e", "v", "/", "v", "1", "a", "l", "p", "h", "a", "1">>,
         kind |-> <<"C", "o", "n", "f", "i", "g">>,
         metadata |-> [name |-> name, namespace |-> <<"d", "e", "f", "a", "u", "l", "t">>,
                       labels |-> [targetName |-> <<"t", "a", "r", "g", "e", "t", "N", "a", "m", "e">>,
                                   targetNamespace |-> <<"d", "e", "f", "a", "u", "l", "t">>]],
         spec |-> [lifecycle |-> [deletionPolicy |-> <<"o", "r", "p", "h", "a", "n">>],
                   revertive |-> TRUE,
                   priority |-> 100,
                   config |-> <<[path |-> o.modelPath, value |-> template]>>]]

\* a range over a map of Go visits every key once, in an order of its own
RangeOrders(set) ==
    {f \in [1..Cardinality(set) -> set] : \A i, j \in DOMAIN f : i # j => f[i] # f[j]}

\* strings.Repeat(" ", depth)
Indent(depth) == [i \in 1..depth |-> " "]

\* every concatenation of one element of each set of sets[1], sets[2], ...
RECURSIVE Concatenations(_)
Concatenations(sets) ==
    IF sets = <<>> THEN {<<>>}
    ELSE {first \o rest : first \in Head(sets), rest \in Concatenations(Tail(sets))}

\* outputXMLData: the lines it may print; the range over a map visits the
\* keys in any order
RECURSIVE outputXMLData(_, _)
outputXMLData(data, depth) ==
    CASE data.t = "map" ->
            UNION {Concatenations(
                       [i \in DOMAIN keys |->
                           IF HasPrefix(keys[i], <<"_">>) THEN {<<>>}
                           ELSE {<<Indent(depth) \o <<"<">> \o keys[i] \o <<">">>>>
                                 \o body
                                 \o <<Indent(depth) \o <<"<", "/">> \o keys[i] \o <<">">>>> :
                                    body \in outputXMLData(data.v[keys[i]], depth + 1)}]) :
                   keys \in RangeOrders(DOMAIN data.v)}
      [] data.t = "slice" ->
            Concatenations([i \in DOMAIN data.v |-> outputXMLData(data.v[i], depth)])
      [] OTHER -> {<<Indent(depth) \o FormatValue(data)>>}

\* where the match of ([^/\[]+)\[([^\]]+)\] that starts at position i of s
\* ends, 0 if there is none; run is the last position of the first group
ListNameRun(s, i) ==
    IF \E j \in i..Len(s) : s[j] \in {"/", "["}
    THEN (CHOOSE j \in i..Len(s) :
             s[j] \in {"/", "["} /\ \A k \in i..(j - 1) : s[k] \notin {"/", "["}) - 1
    ELSE Len(s)

ListKeysEnd(s, i) ==
    LET open == ListNameRun(s, i) + 1
    IN  IF i > Len(s) \/ s[i] \in {"/", "["} THEN 0
        ELSE IF open + 2 <= Len(s) /\ s[open] = "[" /\ s[open + 1] # "]"
                /\ IndexFrom(s, open + 2, "]") # 0
        THEN IndexFrom(s, open + 2, "]")
        ELSE 0

\* the KeyValue slice of the text between the brackets
ParseKeyPairs(keysStr) ==
    LET keyPairs == SplitOn(keysStr, ",")
        RECURSIVE Pairs(_)
        Pairs(i) ==
            IF i > Len(keyPairs) THEN <<>>
            ELSE LET parts == SplitOn(keyPairs[i], "=")
                 IN  IF Len(parts) = 2
                     THEN <<[Name |-> TrimSpace(parts[1]),
                             Value |-> Trim(TrimSpace(parts[2]), {"<", ">"})]>> \o Pairs(i + 1)
                     ELSE Pairs(i + 1)
    IN  Pairs(1)

\* extractPathKeysWithValues: the map from the list name to its KeyValue
\* slice; a later match of the same list name replaces an earlier one
RECURSIVE extractPathKeysWithValues(_)
extractPathKeysWithValues(path) ==
    IF path = <<>> THEN EmptyMap
    ELSE IF ListKeysEnd(path, 1) # 0
         THEN LET run == ListNameRun(path, 1)
                  end == ListKeysEnd(path, 1)
                  rest == extractPathKeysWithValues(SubSeq(path, end + 1, Len(path)))
                  listName == SubSeq(path, 1, run)
              IN  IF listName \in DOMAIN rest THEN rest
                  ELSE MapPut(rest, listName, ParseKeyPairs(SubSeq(path, run + 2, end - 1)))
         ELSE extractPathKeysWithValues(Tail(path))

\* buildXMLPath: the lines it may print
RECURSIVE buildXMLPath(_, _, _, _)
buildXMLPath(pathSegments, pathKeys, data, depth) ==
    IF Len(pathSegments) = 0 THEN outputXMLData(data, depth)
    ELSE LET currentSegment == pathSegments[1]
             keys == IF currentSegment \in DOMAIN pathKeys THEN pathKeys[currentSegment]
                     ELSE <<>>
         IN  {<<Indent(depth) \o <<"<">> \o currentSegment \o <<">">>>>
              \o [i \in DOMAIN keys |->
                     Indent(depth) \o <<" ", "<">> \o keys[i].Name \o <<">">> \o keys[i].Value
                     \o <<"<", "/">> \o keys[i].Name \o <<">">>]
              \o inner
              \o <<Indent(depth) \o <<"<", "/">> \o currentSegment \o <<">">>>> :
                 inner \in buildXMLPath(Tail(pathSegments), pathKeys, data, depth + 1)}

\* outputXMLWithPath: the lines it may print for the module sch
outputXMLWithPath(o, sch, data) ==
    LET cleanPath == stripKeysFromPath(Trim(o.modelPath, {"/"}))
        split == IF cleanPath # <<>> /\ cleanPath # <<"/">> THEN SplitOn(cleanPath, "/")
                 ELSE <<>>
        pathSegments == IF Len(split) > 0 /\ data.t = "map" /\ split[Len(split)] \in DOMAIN data.v
                        THEN SubSeq(split, 1, Len(split) - 1)
                        ELSE split
        pathKeys == extractPathKeysWithValues(o.modelPath)
        rootName == IF sch[1].Name = <<>> THEN <<"r", "o", "o", "t">> ELSE sch[1].Name
        first == IF Namespace(sch) # <<>>
                 THEN <<"<">> \o rootName \o <<" ", "x", "m", "l", "n", "s", "=", "\"">> \o Namespace(sch) \o <<"\"", ">">>
                 ELSE <<"<">> \o rootName \o <<">">>
    IN  {<<first>> \o body \o <<<<"<", "/">> \o rootName \o <<">">>>> :
            body \in buildXMLPath(pathSegments, pathKeys, data, 1)}

\* a document that encoding/json or yaml marshalled from value
Marshalled(encoding, value) == [encoding |-> encoding, value |-> value]

\* a document of lines the command printed itself
Lines(lines) == [encoding |-> "xml", value |-> lines]

\* outputTemplate: what it may write to o.Out and to the output file, and
\* the error it returns
outputTemplate(o, sch, template) ==
    LET format == ToLower(o.outputFormat)
        output == CASE format = <<"j", "s", "o", "n">> -> Marshalled("json", template)
                    [] format = <<"y", "a", "m", "l">> -> Marshalled("yaml", template)
                    [] format = <<"s", "d", "c", "-", "c", "o", "n", "f">> -> Marshalled("yaml", generateSDCConfig(o, template))
    IN  IF format = <<"x", "m", "l">>
        THEN {[stdout |-> <<Lines(lines)>>, file |-> <<>>, err |-> <<>>] :
                 lines \in outputXMLWithPath(o, sch, template)}
        ELSE IF format \notin {<<"j", "s", "o", "n">>, <<"y", "a", "m", "l">>, <<"s", "d", "c", "-", "c", "o", "n", "f">>}
        THEN {[stdout |-> <<>>, file |-> <<>>,
               err |-> <<"u", "n", "s", "u", "p", "p", "o", "r", "t", "e", "d", " ", "f", "o", "r", "m", "a", "t", ":", " ">> \o o.outputFormat]}
        ELSE IF o.outputFile # <<>>
        THEN {[stdout |-> <<>>, file |-> <<output>>, err |-> <<>>]}
        ELSE {[stdout |-> <<output>>, file |-> <<>>, err |-> <<>>]}

\* Complete: the error it returns; exists tells whether os.Stat finds the file
Complete(o, exists) ==
    IF o.yangPath # <<>> /\ ~exists
    THEN <<"Y", "A", "N", "G", " ", "f", "i", "l", "e", " ", "'">> \o o.yangPath \o <<"'", " ", "d", "o", "e", "s", " ", "n", "o", "t", " ", "e", "x", "i", "s", "t">>
    ELSE <<>>

ValidFormats == <<<<"j", "s", "o", "n">>, <<"y", "a", "m", "l">>, <<"x", "m", "l">>, <<"s", "d", "c", "-", "c", "o", "n", "f">>>>

\* Validate: the error it returns
Validate(o) ==
    IF o.yangPath = <<>> THEN <<"-", "-", "y", "a", "n", "g", " ", "p", "a", "r", "a", "m", "e", "t", "e", "r", " ", "i", "s", " ", "r", "e", "q", "u", "i", "r", "e", "d">>
    ELSE IF ~\E i \in DOMAIN ValidFormats : ToLower(o.outputFormat) = ValidFormats[i]
    THEN <<"i", "n", "v", "a", "l", "i", "d", " ", "o", "u", "t", "p", "u", "t", " ", "f", "o", "r", "m", "a", "t", " ", "'">> \o o.outputFormat \o <<"'", ".", " ", "V", "a", "l", "i", "d", " ", "f", "o", "r", "m", "a", "t", "s", ":", " ">>
         \o Join(ValidFormats, <<",", " ">>)
    ELSE <<>>

\* Run: the outcomes of the command on the module sch
Run(o, sch, ord) ==
    LET generated == generateTemplateFromYang(o, sch, ord)
    IN  IF generated.err # <<>>
        THEN {[entry |-> Nil, template |-> NilValue, stdout |-> <<>>, file |-> <<>>,
               err |-> <<"f", "a", "i", "l", "e", "d", " ", "t", "o", " ", "g", "e", "n", "e", "r", "a", "t", "e", " ", "t", "e", "m", "p", "l", "a", "t", "e", ":", " ">> \o generated.err]}
        ELSE {[entry |-> generated.entry, template |-> generated.template,
               stdout |-> out.stdout, file |-> out.file, err |-> out.err] : out \in outputTemplate(o, sch, generated.template)}

\* RunE of the command: Complete, Validate, Run
RunE(o, sch, exists, ord) ==
    IF Complete(o, exists) # <<>>
    THEN {[entry |-> Nil, template |-> NilValue, stdout |-> <<>>, file |-> <<>>,
           err |-> Complete(o, exists)]}
    ELSE IF Validate(o) # <<>>
    THEN {[entry |-> Nil, template |-> NilValue, stdout |-> <<>>, file |-> <<>>,
           err |-> Validate(o)]}
    ELSE Run(o, sch, ord)

(***************************************************************************)
(* Values of the variables a command does not use.                         *)
(***************************************************************************)
NoFilter == [LeafName |-> <<>>, Owner |-> <<>>, Path |-> <<>>, Deviation |-> FALSE]

MatchIdle == text = <<>> /\ pattern = <<>> /\ matched = FALSE

BlameIdle ==
    /\ heap = <<>>
    /\ tree = Nil
    /\ filter = NoFilter
    /\ result = Nil
    /\ result2 = Nil
    /\ origin = <<>>
    /\ examined = <<>>

SearchIdle ==
    /\ schema = <<>>
    /\ keyword = <<>>
    /\ includeDependencies = FALSE
    /\ order = <<>>
    /\ orderIndex = <<>>
    /\ searchResults = <<>>
    /\ printed = <<>>
    /\ visited = <<>>

GenIdle ==
    /\ yangPath = <<>>
    /\ yangExists = FALSE
    /\ modelPath = <<>>
    /\ outputFormat = <<>>
    /\ outputFile = <<>>
    /\ genEntry = Nil
    /\ genTemplate = NilValue
    /\ genErr = <<>>
    /\ stdout = <<>>
    /\ outFile = <<>>

(***************************************************************************)
(* The command "match": one call of MatchesPattern.                        *)
(***************************************************************************)
\* the owner filters the README gives as examples, each with an owner it
\* says the filter shows
ReadmeExamples ==
    {<<<<"d", "e", "f", "a", "u", "l", "t", ".", "c", "u", "s", "t", "o", "m", "e", "r", "-", "s", "r", "o", "s">>,
       <<"d", "e", "f", "a", "u", "l", "t", ".", "*">>>>,
     <<<<"p", "r", "o", "d", "u", "c", "t", "i", "o", "n", ".", "i", "n", "t", "e", "n", "t", "-", "e", "m", "e", "r", "g", "e", "n", "c", "y">>,
       <<"p", "r", "o", "d", "u", "c", "t", "i", "o", "n", ".", "i", "n", "t", "e", "n", "t", "-", "*">>>>}

InitMatch ==
    /\ cmd = "match"
    /\ pc = "start"
    /\ \/ /\ text \in SeqsUpTo(TextChars, MaxTextLen)
          /\ pattern \in SeqsUpTo(PatChars, MaxPatLen)
       \/ \E e \in ReadmeExamples : text = e[1] /\ pattern = e[2]
    /\ caseSensitive \in BOOLEAN
    /\ matched = FALSE
    /\ BlameIdle
    /\ SearchIdle
    /\ GenIdle

Match ==
    /\ cmd = "match"
    /\ pc = "start"
    /\ matched' = MatchesPattern(text, pattern, caseSensitive)
    /\ pc' = "done"
    /\ UNCHANGED <<cmd, text, pattern, caseSensitive>>
    /\ UNCHANGED blameVars
    /\ UNCHANGED searchVars
    /\ UNCHANGED genVars

NextMatch == Match

SpecMatch == InitMatch /\ [][NextMatch]_vars

(***************************************************************************)
(* The command "blame": GetBlameTree has returned a tree of at most        *)
(* MaxNodes nodes; GetFilteredBlameTree filters it, and the outcome is     *)
(* filtered once more with the same criteria.                              *)
(***************************************************************************)
NodeNames == {<<"a">>, <<"b">>}

\* owner, value and deviation value of the leaves; interior nodes carry none
OwnerRunning == <<"r">>
OwnerIntent == <<"d", ".", "i">>
LeafAttrs == {[Owner |-> OwnerRunning, Value |-> "v", DeviationValue |-> NoValue],
              [Owner |-> OwnerRunning, Value |-> "v", DeviationValue |-> "w"],
              [Owner |-> OwnerIntent, Value |-> "v", DeviationValue |-> "w"]}
InteriorAttrs == [Owner |-> <<>>, Value |-> NoValue, DeviationValue |-> NoValue]

LeafNameFilters == {<<>>, <<"a">>, <<"B", "*">>}
OwnerFilters == {<<>>, <<"r">>, <<"d", "*">>}
PathFilters == {<<>>, <<"a", "/", "*">>, <<"*", "/", "b">>}

BlameFilters ==
    [LeafName : LeafNameFilters, Owner : OwnerFilters, Path : PathFilters,
     Deviation : BOOLEAN]

\* the children of node i, in address order, when parent[j] is j's parent
ChildsOf(parent, n, i) ==
    SelectSeq([j \in 1..n |-> j], LAMBDA j : j > 1 /\ parent[j] = i)

\* the leaves of a tree shape
LeavesOf(parent, n) == {i \in 1..n : \A j \in 2..n : parent[j] # i}

\* the heap holding the tree of shape parent, named by names, its leaves
\* carrying attrs
BuildTree(parent, n, names, attrs) ==
    [i \in 1..n |->
        LET at == IF i \in LeavesOf(parent, n) THEN attrs[i] ELSE InteriorAttrs
        IN  [Name |-> names[i],
             Owner |-> at.Owner,
             Value |-> at.Value,
             DeviationValue |-> at.DeviationValue,
             Childs |-> ChildsOf(parent, n, i)]]

\* a is a proper ancestor of x
RECURSIVE IsAncestor(_, _, _)
IsAncestor(parent, a, x) ==
    x # 1 /\ (parent[x] = a \/ IsAncestor(parent, a, parent[x]))

\* the shapes of the ordered trees of n nodes, the nodes numbered in
\* preorder: node 1 is the root, node j hangs below node j-1 or below one
\* of its ancestors
TreeShapes(n) ==
    {parent \in [2..n -> 1..n] :
        \A j \in 2..n : parent[j] = j - 1 \/ IsAncestor(parent, parent[j], j - 1)}

\* the blame trees of n nodes
BlameTrees(n) ==
    UNION {{BuildTree(parent, n, names, attrs) :
                names \in [1..n -> NodeNames],
                attrs \in [LeavesOf(parent, n) -> LeafAttrs]}
           : parent \in TreeShapes(n)}

\* larger trees: a root with three leaves; a tree of depth six whose deep
\* levels have siblings, leaves and interior nodes side by side
A1 == [Owner |-> OwnerRunning, Value |-> "v", DeviationValue |-> NoValue]
A2 == [Owner |-> OwnerRunning, Value |-> "v", DeviationValue |-> "w"]
A3 == [Owner |-> OwnerIntent, Value |-> "v", DeviationValue |-> "w"]
Na == <<"a">>
Nb == <<"b">>
Nc == <<"c">>
WideTree ==
    BuildTree([j \in 2..4 |-> 1], 4, <<Na, Na, Nb, Na>>, <<A1, A1, A2, A3>>)
DeepTree ==
    BuildTree(<<0, 1, 2, 3, 4, 5, 4, 4, 8, 3, 1>>, 11,
              <<Na, Nb, Na, Nb, Nc, Na, Nb, Nc, Nb, Na, Nb>>,
              <<A1, A1, A1, A1, A1, A2, A1, A1, A3, A2, A1>>)
ExampleTrees == {WideTree, DeepTree}

InitBlame ==
    /\ cmd = "blame"
    /\ pc = "start"
    /\ caseSensitive = FALSE
    /\ MatchIdle
    /\ SearchIdle
    /\ GenIdle
    /\ \/ \E n \in 1..MaxNodes : heap \in BlameTrees(n)
       \/ heap \in ExampleTrees
    /\ tree = 1
    /\ filter \in BlameFilters
    /\ result = Nil
    /\ result2 = Nil
    /\ origin = [i \in 1..Len(heap) |-> Nil]
    /\ examined = <<>>

Mem == [nodes |-> heap, arrs |-> <<>>, origin |-> origin, examined |-> examined]

\* client.GetFilteredBlameTree on the fetched tree
Filter ==
    /\ cmd = "blame"
    /\ pc = "start"
    /\ LET out == GetFilteredBlameTree(tree, filter, Mem)
       IN  /\ heap' = out.m.nodes
           /\ origin' = out.m.origin
           /\ examined' = out.m.examined
           /\ result' = out.r
    /\ pc' = "done"
    /\ UNCHANGED <<cmd, caseSensitive, tree, filter, result2>>
    /\ UNCHANGED matchVars
    /\ UNCHANGED searchVars
    /\ UNCHANGED genVars

\* the same filter applied to what Filter returned
FilterAgain ==
    /\ cmd = "blame"
    /\ pc = "done"
    /\ LET out == GetFilteredBlameTree(result, filter, Mem)
       IN  /\ heap' = out.m.nodes
           /\ origin' = out.m.origin
           /\ examined' = out.m.examined
           /\ result2' = out.r
    /\ pc' = "again"
    /\ UNCHANGED <<cmd, caseSensitive, tree, filter, result>>
    /\ UNCHANGED matchVars
    /\ UNCHANGED searchVars
    /\ UNCHANGED genVars

NextBlame == Filter \/ FilterAgain

SpecBlame == InitBlame /\ [][NextBlame]_vars


(***************************************************************************)
(* The command "search": LoadYangModule has returned a module whose entry  *)
(* tree has at most MaxEntries entries; searchInYang walks and sorts it.   *)
(***************************************************************************)
TypeString == [Kind |-> "string", Name |-> <<"s", "t", "r", "i", "n", "g">>, Path |-> <<>>,
               OptionalInstance |-> FALSE, Type |-> <<>>, Range |-> <<>>,
      Pattern |-> <<>>, Enum |-> {}]
TypeLeafref(path) == [Kind |-> "leafref", Name |-> <<"l", "e", "a", "f", "r", "e", "f">>, Path |-> path,
                      OptionalInstance |-> FALSE, Type |-> <<>>, Range |-> <<>>,
      Pattern |-> <<>>, Enum |-> {}]
TypeInstanceId(optional) ==
    [Kind |-> "instance-identifier", Name |-> <<"i", "n", "s", "t", "a", "n", "c", "e", "-", "i", "d", "e", "n", "t", "i", "f", "i", "e", "r">>, Path |-> <<>>,
     OptionalInstance |-> optional, Type |-> <<>>, Range |-> <<>>,
      Pattern |-> <<>>, Enum |-> {}]
TypeUnion(members) == [Kind |-> "union", Name |-> <<"u", "n", "i", "o", "n">>, Path |-> <<>>,
                       OptionalInstance |-> FALSE, Type |-> members, Range |-> <<>>,
      Pattern |-> <<>>, Enum |-> {}]

\* what goyang's ToEntry makes of a module, a container, a list, a leaf and
\* a leaf-list statement
Container(name, desc) ==
    [Name |-> name, Kind |-> "DirectoryEntry", ListAttr |-> FALSE, Key |-> <<>>,
     Description |-> desc, Type |-> NoType, Stmts |-> <<>>]
List(name, key, desc) ==
    [Name |-> name, Kind |-> "DirectoryEntry", ListAttr |-> TRUE, Key |-> key,
     Description |-> desc, Type |-> NoType, Stmts |-> <<>>]
Leaf(name, type, desc) ==
    [Name |-> name, Kind |-> "LeafEntry", ListAttr |-> FALSE, Key |-> <<>>,
     Description |-> desc, Type |-> type, Stmts |-> <<>>]
LeafList(name, type, desc) ==
    [Name |-> name, Kind |-> "LeafEntry", ListAttr |-> TRUE, Key |-> <<>>,
     Description |-> desc, Type |-> type, Stmts |-> <<>>]

ModuleName == <<"m">>
EntryNames == {<<"a">>, <<"B">>}
DescOfB == <<"o", "f", " ", "B">>
InteriorEntries(name) == {Container(name, <<>>), List(name, <<"k">>, DescOfB)}
LeafEntries(name) == {Leaf(name, TypeString, <<>>), Leaf(name, TypeString, DescOfB)}

\* the schema of shape parent whose entry i is entries[i]; Dir is the set of
\* the children's addresses
BuildSchema(parent, n, entries) ==
    [i \in 1..n |->
        [Name |-> entries[i].Name, Kind |-> entries[i].Kind,
         ListAttr |-> entries[i].ListAttr, Key |-> entries[i].Key,
         Description |-> entries[i].Description, Type |-> entries[i].Type,
         Stmts |-> entries[i].Stmts,
         Dir |-> {j \in 2..n : parent[j] = i}]]

\* the schemas of n entries: the module entry on top, below it containers,
\* lists and leaves, the names of siblings distinct
Schemas(n) ==
    UNION {{BuildSchema(parent, n, entries) :
                entries \in {en \in [1..n -> UNION {InteriorEntries(nm) \cup LeafEntries(nm)
                                                     : nm \in EntryNames \cup {ModuleName}}] :
                    /\ en[1] = Container(ModuleName, <<>>)
                    /\ \A i \in 2..n :
                          /\ en[i].Name \in EntryNames
                          /\ (i \in LeavesOf(parent, n)) <=> (en[i].Kind = "LeafEntry")
                    /\ \A i, j \in 2..n :
                          (i # j /\ parent[i] = parent[j]) => en[i].Name # en[j].Name}}
           : parent \in TreeShapes(n)}

\* a module with a keyed list inside a keyed list, a sibling whose name
\* sorts between the list and the list's children, a leafref, a union with
\* a leafref and an instance-identifier in it, a must with an error-message
\* and a when
MustStmt == [Keyword |-> "must", Argument |-> <<".", ">", "0">>,
             Subs |-> <<[Keyword |-> "description", Argument |-> <<"d">>],
                        [Keyword |-> "error-message", Argument |-> <<"e">>]>>]
WhenStmt == [Keyword |-> "when", Argument |-> <<".", ".", "/", "a">>, Subs |-> <<>>]
TypeStmt == [Keyword |-> "type", Argument |-> <<"s", "t", "r", "i", "n", "g">>, Subs |-> <<>>]
RefToA == <<" ", "/", "m", "/", "a", "[", "k", "=", "1", "]", "/", "a">>
RefUp == <<".", ".", "/", "a">>
ExampleSchema ==
    BuildSchema(<<0, 1, 2, 2, 4, 2, 1, 4, 7>>, 9,
        <<Container(ModuleName, <<>>),
          List(<<"a">>, <<"k", " ", "j">>, <<>>),
          [Leaf(<<"a">>, TypeString, <<>>) EXCEPT !.Stmts = <<TypeStmt, MustStmt, WhenStmt>>],
          List(<<"b">>, <<"k">>, DescOfB),
          Leaf(<<"B">>, TypeLeafref(RefToA), <<>>),
          LeafList(<<"c">>, TypeUnion(<<TypeString, TypeLeafref(RefToA),
                                        TypeUnion(<<TypeInstanceId(TRUE), TypeLeafref(RefUp)>>)>>),
                   <<>>),
          Container(<<"a", "-">>, <<>>),
          Leaf(<<"a", ".", "b">>, TypeString, <<>>),
          Leaf(<<"A">>, TypeInstanceId(FALSE), <<>>)>>)

\* modules with leafrefs: to a top-level leaf; to the key of the list the
\* leaf is in, relatively; from a union to a leaf below a keyed list, with a
\* predicate; and two leafrefs to the leaf a of a container that is named as
\* the module is, next to a top-level leaf a
LeafrefTop ==
    BuildSchema(<<0, 1, 1>>, 3,
        <<Container(ModuleName, <<>>),
          Leaf(<<"a">>, TypeString, <<>>),
          Leaf(<<"b">>, TypeLeafref(<<"/", "a">>), <<>>)>>)
LeafrefRelative ==
    BuildSchema(<<0, 1, 2, 2>>, 4,
        <<Container(ModuleName, <<>>),
          List(<<"a">>, <<"k">>, <<>>),
          Leaf(<<"k">>, TypeString, <<>>),
          Leaf(<<"b">>, TypeLeafref(<<".", ".", "/", "k">>), <<>>)>>)
LeafrefUnion ==
    BuildSchema(<<0, 1, 2, 1>>, 4,
        <<Container(ModuleName, <<>>),
          List(<<"a">>, <<"k">>, <<>>),
          Leaf(<<"k">>, TypeString, <<>>),
          Leaf(<<"b">>, TypeUnion(<<TypeString,
                                    TypeLeafref(<<"/", "a", "[", "k", "=", "1", "]", "/", "k">>)>>),
               <<>>)>>)
LeafrefShadow ==
    BuildSchema(<<0, 1, 2, 1, 1, 5, 5>>, 7,
        <<Container(ModuleName, <<>>),
          Container(ModuleName, <<>>),
          Leaf(<<"a">>, TypeString, <<>>),
          Leaf(<<"a">>, TypeString, <<>>),
          Container(<<"r">>, <<>>),
          Leaf(<<"b">>, TypeLeafref(<<"/", "m", "/", "a">>), <<>>),
          Leaf(<<"c">>, TypeLeafref(<<"/", "m", "/", "a">>), <<>>)>>)
\* the list plmn with the key name, at top level
Plmn ==
    BuildSchema(<<0, 1, 2>>, 3,
        <<Container(ModuleName, <<>>),
          List(<<"p", "l", "m", "n">>, <<"n", "a", "m", "e">>, <<>>),
          Leaf(<<"n", "a", "m", "e">>, TypeString, <<>>)>>)
LeafrefSchemas == {LeafrefTop, LeafrefRelative, LeafrefUnion, LeafrefShadow, Plmn}

\* one order per entry: the orders of the entries 1..n
RECURSIVE OrdersUpTo(_, _)
OrdersUpTo(sch, n) ==
    IF n = 0 THEN {<<>>}
    ELSE {Append(ord, dir) : ord \in OrdersUpTo(sch, n - 1), dir \in RangeOrders(sch[n].Dir)}

Orders(sch) == OrdersUpTo(sch, Len(sch))

Keywords == {<<"a">>, <<"*", "b">>, <<"*", "/", "B">>, <<"*", "a", "*">>, <<"a", ".", "*">>}

\* the path search-for prints for entry e of sch, and the same path written
\* with names alone
RECURSIVE PathParts(_, _, _)
PathParts(sch, e, withKeys) ==
    LET part == IF withKeys THEN buildPathPartWithKeys(sch[e]) ELSE sch[e].Name
    IN  IF e = 1 THEN <<part>>
        ELSE Append(PathParts(sch, CHOOSE q \in DOMAIN sch : e \in sch[q].Dir, withKeys), part)

PrintedPath(sch, e) ==
    RemoveModulePrefix(<<"/">> \o Join(PathParts(sch, e, TRUE), <<"/">>), sch[1].Name)

NameOnlyPath(sch, e) ==
    RemoveModulePrefix(<<"/">> \o Join(PathParts(sch, e, FALSE), <<"/">>), sch[1].Name)

\* the paths a search of sch can print, each one a keyword of a later run
PrintedPaths(sch) == {PrintedPath(sch, e) : e \in DOMAIN sch}

InitSearch ==
    /\ cmd = "search"
    /\ pc = "start"
    /\ MatchIdle
    /\ BlameIdle
    /\ \/ \E n \in 1..MaxEntries : schema \in Schemas(n)
       \/ schema = ExampleSchema
       \/ schema \in LeafrefSchemas
    /\ \/ /\ keyword \in Keywords
          /\ caseSensitive \in BOOLEAN
          /\ includeDependencies \in BOOLEAN
       \/ /\ keyword \in PrintedPaths(schema)
          /\ caseSensitive = FALSE
          /\ includeDependencies = FALSE
    /\ order = <<>>
    /\ orderIndex = <<>>
    /\ searchResults = <<>>
    /\ printed = <<>>
    /\ visited = <<>>
    /\ GenIdle

SearchOptions ==
    [keyword |-> keyword, caseSensitive |-> caseSensitive,
     includeDependencies |-> includeDependencies]

\* searchInYang on the loaded module; the runtime picks the order of every
\* range over a Dir
Search ==
    /\ cmd = "search"
    /\ pc = "start"
    /\ \E ord \in Orders(schema) :
          \E ordIndex \in (IF includeDependencies THEN Orders(schema) ELSE {ord}) :
             /\ order' = ord
             /\ orderIndex' = ordIndex
             /\ searchResults' = searchInYang(SearchOptions, schema, 1, ord, ordIndex)
             /\ visited' = ContextsHeld(SearchOptions, schema, 1, ord)
    /\ pc' = "done"
    /\ UNCHANGED <<cmd, caseSensitive, schema, keyword, includeDependencies, printed>>
    /\ UNCHANGED matchVars
    /\ UNCHANGED blameVars
    /\ UNCHANGED genVars

\* outputResults: the module name is removed from every result path, in the
\* results themselves, and the document is written
Output ==
    /\ cmd = "search"
    /\ pc = "done"
    /\ LET out == outputResults(SearchOptions, searchResults, schema[1].Name)
       IN  /\ searchResults' = out.results
           /\ printed' = out.written
    /\ pc' = "printed"
    /\ UNCHANGED <<cmd, caseSensitive, schema, keyword, includeDependencies,
                   order, orderIndex, visited>>
    /\ UNCHANGED matchVars
    /\ UNCHANGED blameVars
    /\ UNCHANGED genVars

NextSearch == Search \/ Output

SpecSearch == InitSearch /\ [][NextSearch]_vars

(***************************************************************************)
(* The command "gen": the flags are parsed, the file named by --yang holds *)
(* the module schema or does not exist; RunE completes, validates and      *)
(* runs.                                                                   *)
(***************************************************************************)
TypeOfKind(kind, name) ==
    [Kind |-> kind, Name |-> name, Path |-> <<>>, OptionalInstance |-> FALSE,
     Type |-> <<>>, Range |-> <<>>, Pattern |-> <<>>, Enum |-> {}]
TypeUint8 == TypeOfKind("uint8", <<"u", "i", "n", "t", "8">>)
TypeBool == TypeOfKind("boolean", <<"b", "o", "o", "l", "e", "a", "n">>)
TypeDecimal64 == TypeOfKind("decimal64", <<"d", "e", "c", "i", "m", "a", "l", "6", "4">>)
TypeBits == TypeOfKind("bits", <<"b", "i", "t", "s">>)
TypeEnum(names) ==
    [Kind |-> "enumeration", Name |-> <<"e", "n", "u", "m", "e", "r", "a", "t", "i", "o", "n">>, Path |-> <<>>,
     OptionalInstance |-> FALSE, Type |-> <<>>, Range |-> <<>>, Pattern |-> <<>>,
     Enum |-> names]
WithRange(type, range) ==
    [Kind |-> type.Kind, Name |-> type.Name, Path |-> type.Path,
     OptionalInstance |-> type.OptionalInstance, Type |-> type.Type, Range |-> range,
     Pattern |-> type.Pattern, Enum |-> type.Enum]
WithPattern(type, pat) ==
    [Kind |-> type.Kind, Name |-> type.Name, Path |-> type.Path,
     OptionalInstance |-> type.OptionalInstance, Type |-> type.Type, Range |-> type.Range,
     Pattern |-> <<pat>>, Enum |-> type.Enum]

\* what goyang's ToEntry makes of a choice and a case statement
Choice(name) ==
    [Name |-> name, Kind |-> "ChoiceEntry", ListAttr |-> FALSE, Key |-> <<>>,
     Description |-> <<>>, Type |-> NoType, Stmts |-> <<>>]
Case(name) ==
    [Name |-> name, Kind |-> "CaseEntry", ListAttr |-> FALSE, Key |-> <<>>,
     Description |-> <<>>, Type |-> NoType, Stmts |-> <<>>]

Notification(name) ==
    [Name |-> name, Kind |-> "NotificationEntry", ListAttr |-> FALSE, Key |-> <<>>,
     Description |-> <<>>, Type |-> NoType, Stmts |-> <<>>]

\* container configure { list card { key slot; leaf slot; leaf admin-state } }
CardSchema ==
    BuildSchema(<<0, 1, 2, 3, 3>>, 5,
        <<Container(ModuleName, <<>>),
          Container(<<"c", "o", "n", "f", "i", "g", "u", "r", "e">>, <<>>),
          List(<<"c", "a", "r", "d">>, <<"s", "l", "o", "t">>, <<>>),
          Leaf(<<"s", "l", "o", "t">>, TypeUint8, <<>>),
          Leaf(<<"a", "d", "m", "i", "n", "-", "s", "t", "a", "t", "e">>, TypeEnum({<<"e", "n", "a", "b", "l", "e">>, <<"d", "i", "s", "a", "b", "l", "e">>}), <<>>)>>)

\* container a { list b { key k; leaf k; container c { leaf k; leaf-list d } } }
AbcSchema ==
    BuildSchema(<<0, 1, 2, 3, 3, 5, 5>>, 7,
        <<Container(ModuleName, <<>>),
          Container(<<"a">>, <<>>),
          List(<<"b">>, <<"k">>, <<>>),
          Leaf(<<"k">>, TypeString, <<>>),
          Container(<<"c">>, <<>>),
          Leaf(<<"k">>, WithRange(TypeUint8, <<"1", ".", ".", "9">>), <<>>),
          LeafList(<<"d">>, TypeString, <<>>)>>)

\* list l { key n; leaf n; list t { key "p tac"; leaf p; leaf tac } }
TacSchema ==
    BuildSchema(<<0, 1, 2, 2, 4, 4>>, 6,
        <<Container(ModuleName, <<>>),
          List(<<"l">>, <<"n">>, <<>>),
          Leaf(<<"n">>, TypeString, <<>>),
          List(<<"t">>, <<"p", " ", "t", "a", "c">>, <<>>),
          Leaf(<<"p">>, TypeBits, <<>>),
          Leaf(<<"t", "a", "c">>, WithPattern(TypeString, <<"[", "0", "-", "9", "]">>), <<>>)>>)

\* choice ch { case c1 { leaf x } case c2 { leaf y } }
ChoiceSchema ==
    BuildSchema(<<0, 1, 2, 3, 2, 5>>, 6,
        <<Container(ModuleName, <<>>),
          Choice(<<"c", "h">>),
          Case(<<"c", "1">>),
          Leaf(<<"x">>, TypeBool, <<>>),
          Case(<<"c", "2">>),
          Leaf(<<"y">>, TypeDecimal64, <<>>)>>)

\* container sys { leaf up; notification ev { leaf up; container info {
\* leaf x; leaf-list ids { type uint8 { range "1..9"; } } } } }
EventSchema ==
    BuildSchema(<<0, 1, 2, 2, 4, 4, 6, 6>>, 8,
        <<Container(ModuleName, <<>>),
          Container(<<"s", "y", "s">>, <<>>),
          Leaf(<<"u", "p">>, TypeBool, <<>>),
          Notification(<<"e", "v">>),
          Leaf(<<"u", "p">>, TypeBool, <<>>),
          Container(<<"i", "n", "f", "o">>, <<>>),
          Leaf(<<"x">>, TypeString, <<>>),
          LeafList(<<"i", "d", "s">>, WithRange(TypeUint8, <<"1", ".", ".", "9">>), <<>>)>>)

\* list l { key x; leaf x; list l { key y; leaf y; leaf v; container l { leaf w } } }
NestSchema ==
    BuildSchema(<<0, 1, 2, 2, 4, 4, 4, 7>>, 8,
        <<Container(ModuleName, <<>>),
          List(<<"l">>, <<"x">>, <<>>),
          Leaf(<<"x">>, TypeString, <<>>),
          List(<<"l">>, <<"y">>, <<>>),
          Leaf(<<"y">>, TypeString, <<>>),
          Leaf(<<"v">>, TypeBool, <<>>),
          Container(<<"l">>, <<>>),
          Leaf(<<"w">>, TypeBool, <<>>)>>)

GenExamples ==
    {CardSchema, AbcSchema, TacSchema, ChoiceSchema, EventSchema, NestSchema, Plmn, LeafrefShadow}

GenSchemas == GenExamples \cup UNION {Schemas(n) : n \in 1..MaxGenEntries}

\* the values of --path: the paths of the entries, a path below each of
\* them, the root and the empty path
ModelPaths(sch) ==
    {<<>>, <<"/">>}
    \cup {PrintedPath(sch, e) : e \in DOMAIN sch}
    \cup {NameOnlyPath(sch, e) : e \in DOMAIN sch}
    \cup {Trim(PrintedPath(sch, e), {"/"}) \o <<"/", "x">> : e \in DOMAIN sch}

\* the values of --format
Formats == {<<"j", "s", "o", "n">>, <<"y", "a", "m", "l">>, <<"x", "m", "l">>, <<"s", "d", "c", "-", "c", "o", "n", "f">>, <<"X", "M", "L">>, <<"S", "d", "c", "-", "C", "o", "n", "f">>, <<"t", "e", "x", "t">>}

\* the values of --yang, each with whether the file exists
YangFiles == {<<<<>>, FALSE>>, <<<<"m", ".", "y", "a", "n", "g">>, TRUE>>, <<<<"m", ".", "y", "a", "n", "g">>, FALSE>>, <<<<"x", ".", "y", "a", "n", "g">>, TRUE>>}

\* the values of --output
OutputFiles == {<<>>, <<"o", "u", "t">>}

InitGen ==
    /\ cmd = "gen"
    /\ pc = "start"
    /\ MatchIdle
    /\ BlameIdle
    /\ caseSensitive = FALSE
    /\ schema \in GenSchemas
    /\ keyword = <<>>
    /\ includeDependencies = FALSE
    /\ order = <<>>
    /\ orderIndex = <<>>
    /\ searchResults = <<>>
    /\ printed = <<>>
    /\ visited = <<>>
    /\ \E f \in YangFiles : yangPath = f[1] /\ yangExists = f[2]
    /\ modelPath \in ModelPaths(schema)
    /\ outputFormat \in Formats
    /\ outputFile \in OutputFiles
    /\ genEntry = Nil
    /\ genTemplate = NilValue
    /\ genErr = <<>>
    /\ stdout = <<>>
    /\ outFile = <<>>

GenOptions ==
    [yangPath |-> yangPath, modelPath |-> modelPath, outputFormat |-> outputFormat,
     outputFile |-> outputFile]

\* RunE; the runtime picks the order of every range over a map
Gen ==
    /\ cmd = "gen"
    /\ pc = "start"
    /\ \E ord \in Orders(schema) :
          \E out \in RunE(GenOptions, schema, yangExists, ord) :
             /\ order' = ord
             /\ genEntry' = out.entry
             /\ genTemplate' = out.template
             /\ genErr' = out.err
             /\ stdout' = out.stdout
             /\ outFile' = out.file
    /\ pc' = "done"
    /\ UNCHANGED <<cmd, caseSensitive, schema, keyword, includeDependencies, orderIndex,
                   searchResults, printed, visited>>
    /\ UNCHANGED <<yangPath, yangExists, modelPath, outputFormat, outputFile>>
    /\ UNCHANGED matchVars
    /\ UNCHANGED blameVars

NextGen == Gen

SpecGen == InitGen /\ [][NextGen]_vars

(***************************************************************************)
(* The plugin runs one command per invocation.                             *)
(***************************************************************************)
Init == InitMatch \/ InitBlame \/ InitSearch \/ InitGen

Next == Match \/ Filter \/ FilterAgain \/ Search \/ Output \/ Gen

Spec == Init /\ [][Next]_vars

(***************************************************************************)
(* The wildcard language of the specification: "*" stands for any run of   *)
(* characters, possibly empty, and every other character for itself.       *)
(***************************************************************************)
RECURSIVE WildMatch(_, _)
WildMatch(t, pat) ==
    IF pat = <<>> THEN t = <<>>
    ELSE IF Head(pat) = "*"
         THEN WildMatch(t, Tail(pat)) \/ (t # <<>> /\ WildMatch(Tail(t), pat))
         ELSE t # <<>> /\ Head(t) = Head(pat) /\ WildMatch(Tail(t), Tail(pat))

HasStar(pat) == \E i \in 1..Len(pat) : pat[i] = "*"

(***************************************************************************)
(* C3: a non-empty pattern without "*" is matched literally: case          *)
(* sensitively, MatchesPattern is true exactly when the text equals the    *)
(* pattern.                                                                *)
(***************************************************************************)
C3_NoStarIsLiteral ==
    (cmd = "match" /\ pc = "done" /\ caseSensitive /\ pattern # <<>> /\ ~HasStar(pattern))
        => (matched <=> text = pattern)

(***************************************************************************)
(* C4: in a pattern with "*", each "*" matches any run of characters and   *)
(* every other character, "." included, only itself, so that "default.*"   *)
(* matches the owner "default.customer-sros".                              *)
(***************************************************************************)
C4_StarIsWildcard ==
    (cmd = "match" /\ pc = "done" /\ HasStar(pattern))
        => (matched <=> IF caseSensitive THEN WildMatch(text, pattern)
                        ELSE WildMatch(ToLower(text), ToLower(pattern)))

(***************************************************************************)
(* Reading the blame heap.                                                 *)
(***************************************************************************)
\* the addresses reachable from a through Childs
RECURSIVE Reach(_, _)
Reach(h, a) ==
    IF a = Nil THEN {}
    ELSE {a} \cup UNION {Reach(h, h[a].Childs[i]) : i \in 1..Len(h[a].Childs)}

\* the tree at address a as a value: <<>> for nil, else one nested record
RECURSIVE Unfold(_, _)
Unfold(h, a) ==
    IF a = Nil THEN <<>>
    ELSE <<[Name |-> h[a].Name,
            Owner |-> h[a].Owner,
            Value |-> h[a].Value,
            DeviationValue |-> h[a].DeviationValue,
            Childs |-> [i \in 1..Len(h[a].Childs) |-> Unfold(h, h[a].Childs[i])[1]]]>>

IsChild(h, p, a) == \E i \in 1..Len(h[p].Childs) : h[p].Childs[i] = a

\* the names from the root down to a, a's own name last
RECURSIVE NamePath(_, _, _)
NamePath(h, root, a) ==
    IF a = root THEN <<h[a].Name>>
    ELSE LET p == CHOOSE q \in Reach(h, root) : IsChild(h, q, a)
         IN  Append(NamePath(h, root, p), h[a].Name)

SourceNodes == Reach(heap, tree)
ResultNodes == Reach(heap, result)
IsLeaf(a) == Len(heap[a].Childs) = 0

\* source node a has a copy in the filtered tree
Kept(a) == \E r \in ResultNodes : origin[r] = a

Filtered == cmd = "blame" /\ pc # "start" /\ ~NoCriteria(filter)

\* source leaf a meets every criterion the filter supplies
Satisfies(a) ==
    /\ filter.LeafName # <<>> => MatchesPattern(heap[a].Name, filter.LeafName, FALSE)
    /\ filter.Owner # <<>> => MatchesPattern(heap[a].Owner, filter.Owner, FALSE)
    /\ filter.Path # <<>> =>
          MatchesPattern(Join(NamePath(heap, tree, a), <<"/">>), filter.Path, FALSE)
    /\ filter.Deviation => IsDeviated(heap[a])

(***************************************************************************)
(* C1: with at least one criterion, a leaf of the blame tree is in the     *)
(* filtered tree if and only if it meets every supplied criterion (leaf    *)
(* name, owner, full path, deviation); a criterion not supplied imposes    *)
(* nothing.                                                                *)
(***************************************************************************)
C1_LeafKeptIffAllCriteria ==
    Filtered => \A a \in SourceNodes : IsLeaf(a) => (Kept(a) <=> Satisfies(a))

C1_Witness ==
    /\ Filtered /\ pc = "done"
    /\ filter.LeafName # <<>> /\ filter.Owner # <<>> /\ filter.Path # <<>>
    /\ filter.Deviation
    /\ \E a, b \in SourceNodes :
          /\ IsLeaf(a) /\ IsLeaf(b)
          /\ Kept(a) /\ ~Kept(b)
          /\ MatchesPattern(heap[b].Name, filter.LeafName, FALSE)
          /\ MatchesPattern(heap[b].Owner, filter.Owner, FALSE)

(***************************************************************************)
(* C2: every node of the filtered tree has the chain of ancestor names it  *)
(* has in the source tree; a node with children is kept if and only if one *)
(* of its children is kept, it carries exactly the kept children in their  *)
(* original order, and no kept interior node is childless.                 *)
(***************************************************************************)
C2_AncestorsAndChildren ==
    Filtered =>
        /\ \A r \in ResultNodes :
              /\ origin[r] \in SourceNodes
              /\ NamePath(heap, result, r) = NamePath(heap, tree, origin[r])
              /\ [i \in 1..Len(heap[r].Childs) |-> origin[heap[r].Childs[i]]]
                    = SelectSeq(heap[origin[r]].Childs, Kept)
              /\ ~IsLeaf(origin[r]) => ~IsLeaf(r)
        /\ \A a \in SourceNodes :
              ~IsLeaf(a) =>
                  (Kept(a) <=> \E i \in 1..Len(heap[a].Childs) : Kept(heap[a].Childs[i]))

C2_Witness ==
    /\ Filtered /\ pc = "done"
    /\ \E a, b \in SourceNodes :
          /\ ~IsLeaf(a) /\ Kept(a) /\ a # tree
          /\ Len(SelectSeq(heap[a].Childs, Kept)) >= 2
          /\ Len(SelectSeq(heap[a].Childs, Kept)) < Len(heap[a].Childs)
          /\ ~IsLeaf(b) /\ ~Kept(b)

(***************************************************************************)
(* C5: with no criterion at all, GetFilteredBlameTree returns the input    *)
(* tree itself: nothing is traversed, copied or changed.                   *)
(***************************************************************************)
C5_NoCriteriaIdentity ==
    [][(cmd = "blame" /\ pc = "start" /\ NoCriteria(filter))
          => (result' = tree /\ heap' = heap /\ examined' = <<>>)]_vars

C5_Witness ==
    /\ cmd = "blame" /\ pc = "done" /\ NoCriteria(filter)
    /\ result = tree
    /\ Cardinality(SourceNodes) > 3

(***************************************************************************)
(* C6: filtering with at least one criterion leaves every node of the      *)
(* input as it was, and the tree returned consists of new nodes only.      *)
(***************************************************************************)
C6_InputUntouched ==
    [][(cmd = "blame" /\ pc \in {"start", "done"} /\ ~NoCriteria(filter))
          => /\ \A a \in 1..Len(heap) : heap'[a] = heap[a]
             /\ Reach(heap', IF pc = "start" THEN result' ELSE result2')
                    \cap (1..Len(heap)) = {}]_vars

C6_Witness ==
    /\ Filtered /\ pc = "done"
    /\ result # Nil
    /\ Cardinality(ResultNodes) >= 3
    /\ Cardinality(ResultNodes) < Cardinality(SourceNodes)

(***************************************************************************)
(* C7: filtering a filtered tree again with the same criteria gives an     *)
(* equal tree, and nil stays nil.                                          *)
(***************************************************************************)
C7_Idempotent ==
    (cmd = "blame" /\ pc = "again") => Unfold(heap, result2) = Unfold(heap, result)

C7_Witness ==
    /\ cmd = "blame" /\ pc = "again" /\ ~NoCriteria(filter)
    /\ result # Nil /\ result2 # Nil /\ result2 # result
    /\ Cardinality(ResultNodes) >= 3
    /\ Cardinality(ResultNodes) < Cardinality(SourceNodes)

C7_WitnessNil ==
    /\ cmd = "blame" /\ pc = "again" /\ result = Nil /\ result2 = Nil

(***************************************************************************)
(* Reading the schema and the search results.                              *)
(***************************************************************************)
Searched == cmd = "search" /\ pc = "done"

Entries == 1..Len(schema)

\* the path parts from the module entry down to entry e
RECURSIVE EntryPathParts(_)
EntryPathParts(e) ==
    IF e = 1 THEN <<buildPathPartWithKeys(schema[e])>>
    ELSE LET p == CHOOSE q \in Entries : e \in schema[q].Dir
         IN  Append(EntryPathParts(p), buildPathPartWithKeys(schema[e]))

EntryPath(e) == <<"/">> \o Join(EntryPathParts(e), <<"/">>)

\* the positions of entry e in the results
ResultsOf(e) ==
    {i \in 1..Len(searchResults) :
        /\ searchResults[i].Path = EntryPath(e)
        /\ searchResults[i].LeafName = schema[e].Name}

\* the texts of entry e a keyword is matched against
TextsOf(e) ==
    {schema[e].Name, EntryPath(e)}
        \cup (IF schema[e].Description # <<>> THEN {schema[e].Description} ELSE {})

KeywordMatches(e) == \E t \in TextsOf(e) : MatchesPattern(t, keyword, FALSE)

(***************************************************************************)
(* C8: search honours the case-sensitivity option: an entry whose name,    *)
(* path and description match the keyword only when letter case is         *)
(* ignored is in the results when the option is off and is not in the      *)
(* results when it is on.                                                  *)
(***************************************************************************)
C8_CaseSensitivityHonoured ==
    Searched =>
        \A e \in Entries :
            (/\ \E t \in TextsOf(e) : WildMatch(ToLower(t), ToLower(keyword))
             /\ \A t \in TextsOf(e) : ~WildMatch(t, keyword))
            => ((ResultsOf(e) # {}) <=> ~caseSensitive)

(***************************************************************************)
(* C9: the walk ends, and an entry is in the results, once, if and only if *)
(* the keyword matches its name, its full path or its non-empty            *)
(* description; with dependency collection and without.                    *)
(***************************************************************************)
C9_EntryFoundOnceIffMatches ==
    Searched =>
        /\ \A e \in Entries :
              Cardinality(ResultsOf(e)) = IF KeywordMatches(e) THEN 1 ELSE 0
        /\ Len(searchResults) = Cardinality({e \in Entries : KeywordMatches(e)})

C9_Witness ==
    /\ Searched
    /\ includeDependencies
    /\ \E e \in Entries :
          /\ ResultsOf(e) # {}
          /\ ~MatchesPattern(schema[e].Name, keyword, FALSE)
          /\ ~MatchesPattern(EntryPath(e), keyword, FALSE)
    /\ \E f \in Entries :
          /\ ResultsOf(f) # {}
          /\ schema[f].Description = <<>>
    /\ \E g \in Entries : ResultsOf(g) = {}

(***************************************************************************)
(* C10: the results searchInYang returns are in ascending order of their   *)
(* paths, in whatever orders the walk ranged over the children.            *)
(***************************************************************************)
C10_ResultsSortedByPath ==
    Searched =>
        \A i, j \in 1..Len(searchResults) :
            i < j => ~StrLess(searchResults[j].Path, searchResults[i].Path)

C10_Witness ==
    /\ Searched
    /\ Len(searchResults) >= 3
    /\ \E e \in Entries : \E i, j \in 1..Len(order[e]) :
          /\ i < j
          /\ ResultsOf(order[e][i]) # {}
          /\ ResultsOf(order[e][j]) # {}
          /\ StrLess(EntryPath(order[e][j]), EntryPath(order[e][i]))

(***************************************************************************)
(* The order in which the schema document declares the children, taken as  *)
(* the order of their addresses.                                           *)
(***************************************************************************)
RECURSIVE Ascending(_)
Ascending(set) ==
    IF set = {} THEN <<>>
    ELSE LET least == CHOOSE x \in set : \A y \in set : x <= y
         IN  <<least>> \o Ascending(set \ {least})

DeclaredOrder == [e \in Entries |-> Ascending(schema[e].Dir)]

(***************************************************************************)
(* C11: the results of a search are those of the search that ranges over   *)
(* every Dir in declared order, whatever orders this run ranged in: the    *)
(* same results in the same order with the same dependency records, the    *)
(* order of every ReferencedBy included.                                   *)
(***************************************************************************)
C11_SearchDeterministic ==
    Searched =>
        searchResults = searchInYang(SearchOptions, schema, 1, DeclaredOrder, DeclaredOrder)

(***************************************************************************)
(* C12: every path written is "/" followed by the segments of the entries  *)
(* below the module entry down to the result's entry, joined by "/"; the   *)
(* segment of a list with the keys k1..kn is name[k1=<key>,...,kn=<key>],  *)
(* the segment of any other entry its name.                                *)
(***************************************************************************)
RECURSIVE KeyPredicates(_)
KeyPredicates(keys) ==
    IF keys = <<>> THEN <<>>
    ELSE Head(keys) \o <<"=", "<", "k", "e", "y", ">">>
         \o (IF Len(keys) > 1 THEN <<",">> ELSE <<>>) \o KeyPredicates(Tail(keys))

Segment(e) ==
    IF schema[e].ListAttr /\ Fields(schema[e].Key) # <<>>
    THEN schema[e].Name \o <<"[">> \o KeyPredicates(Fields(schema[e].Key)) \o <<"]">>
    ELSE schema[e].Name

ParentOf(e) == CHOOSE q \in Entries : e \in schema[q].Dir

\* "/seg/seg/..." for the entries below the module entry down to e
RECURSIVE PathBelowModule(_)
PathBelowModule(e) ==
    IF e = 1 THEN <<>>
    ELSE PathBelowModule(ParentOf(e)) \o <<"/">> \o Segment(e)

ReportedPath(e) == IF e = 1 THEN <<"/">> ELSE PathBelowModule(e)

C12_PathReconstruction ==
    [][(cmd = "search" /\ pc = "done" /\ pc' = "printed") =>
          /\ Len(printed'.results) = Len(searchResults)
          /\ \A e \in Entries : \A i \in ResultsOf(e) :
                printed'.results[i].Path = ReportedPath(e)]_vars

C12_Witness ==
    /\ cmd = "search" /\ pc = "printed"
    /\ schema = Plmn
    /\ \E i \in 1..Len(printed.results) :
          printed.results[i].Path =
              <<"/", "p", "l", "m", "n", "[", "n", "a", "m", "e", "=", "<", "k", "e", "y", ">", "]">>
    /\ \E i \in 1..Len(printed.results) :
          printed.results[i].Path =
              <<"/", "p", "l", "m", "n", "[", "n", "a", "m", "e", "=", "<", "k", "e", "y", ">", "]",
                "/", "n", "a", "m", "e">>

(***************************************************************************)
(* C13: when leaf x has a leafref, directly or in a union, whose path      *)
(* leads to entry y, the result for y has x's path in its ReferencedBy.    *)
(* A leafref path is resolved as YANG resolves it: an absolute path names  *)
(* the nodes from the top level of the module down, a relative one starts  *)
(* at the leaf and goes up one node per "..", predicates playing no part.  *)
(***************************************************************************)
RECURSIVE LeafrefPaths(_)
LeafrefPaths(type) ==
    (IF type.Kind = "leafref" THEN {type.Path} ELSE {})
        \cup (IF type.Kind = "union"
              THEN UNION {LeafrefPaths(type.Type[i]) : i \in 1..Len(type.Type)}
              ELSE {})

RECURSIVE StripPredicates(_, _)
StripPredicates(str, inside) ==
    IF str = <<>> THEN <<>>
    ELSE IF Head(str) = "[" THEN StripPredicates(Tail(str), TRUE)
    ELSE IF Head(str) = "]" THEN StripPredicates(Tail(str), FALSE)
    ELSE (IF inside \/ Head(str) = " " THEN <<>> ELSE <<Head(str)>>)
         \o StripPredicates(Tail(str), inside)

RECURSIVE Descend(_, _)
Descend(from, steps) ==
    IF steps = <<>> THEN {from}
    ELSE IF Head(steps) = <<".", ".">>
         THEN (IF from = 1 THEN {} ELSE Descend(ParentOf(from), Tail(steps)))
         ELSE UNION {Descend(c, Tail(steps)) :
                        c \in {d \in schema[from].Dir : schema[d].Name = Head(steps)}}

\* the entries the leafref path of leaf x leads to
TargetsOf(x, path) ==
    LET clean == StripPredicates(path, FALSE)
    IN  IF clean = <<>> THEN {}
        ELSE IF Head(clean) = "/" THEN Descend(1, SplitOn(Tail(clean), "/"))
        ELSE Descend(x, SplitOn(clean, "/"))

\* the path of entry e made of names only, as indexReferences records it
RECURSIVE NamesPath(_)
NamesPath(e) ==
    IF e = 1 THEN <<"/">> \o schema[1].Name
    ELSE NamesPath(ParentOf(e)) \o <<"/">> \o schema[e].Name

\* every result for y lists x, by one of the ways a path of x is written
HasReferencedBy(y, x) ==
    \A i \in ResultsOf(y) :
        /\ searchResults[i].Dependencies # NoDeps
        /\ \E j \in 1..Len(searchResults[i].Dependencies[1].ReferencedBy) :
              searchResults[i].Dependencies[1].ReferencedBy[j]
                  \in {EntryPath(x), NamesPath(x), ReportedPath(x)}

C13_ReverseIndexSymmetry ==
    (Searched /\ includeDependencies) =>
        \A x \in Entries : \A path \in LeafrefPaths(schema[x].Type) :
            \A y \in TargetsOf(x, path) : HasReferencedBy(y, x)

(***************************************************************************)
(* C14: in a search with dependencies, a matching leaf without a keyed     *)
(* list above it, whose type holds no leafref and no instance-identifier   *)
(* and which has no must and no when, has no dependency record, provided   *)
(* that its path is not the target the reverse index holds for a leafref.  *)
(***************************************************************************)
RECURSIVE HasKeyedListAbove(_)
HasKeyedListAbove(e) ==
    e # 1 /\ LET p == ParentOf(e)
             IN  (schema[p].ListAttr /\ Fields(schema[p].Key) # <<>>) \/ HasKeyedListAbove(p)

RECURSIVE HoldsReference(_)
HoldsReference(type) ==
    \/ type.Kind \in {"leafref", "instance-identifier"}
    \/ type.Kind = "union" /\ \E i \in 1..Len(type.Type) : HoldsReference(type.Type[i])

PlainLeaf(e) ==
    /\ schema[e].Kind = "LeafEntry"
    /\ ~HasKeyedListAbove(e)
    /\ ~HoldsReference(schema[e].Type)
    /\ \A i \in 1..Len(schema[e].Stmts) : schema[e].Stmts[i].Keyword \notin {"must", "when"}

\* some leafref of the schema is indexed under the path of e
IndexedTarget(e) ==
    \E x \in Entries : \E path \in LeafrefPaths(schema[x].Type) :
        path # <<>> /\ normalizeXPath(path) = EntryPath(e)

C14_PlainLeafNoRecord ==
    (Searched /\ includeDependencies) =>
        \A e \in Entries :
            (PlainLeaf(e) /\ ~IndexedTarget(e)) =>
                \A i \in ResultsOf(e) : searchResults[i].Dependencies = NoDeps

C14_Original ==
    (Searched /\ includeDependencies) =>
        \A e \in Entries :
            PlainLeaf(e) => \A i \in ResultsOf(e) : searchResults[i].Dependencies = NoDeps

C14_Witness ==
    /\ Searched /\ includeDependencies
    /\ \E e \in Entries : PlainLeaf(e) /\ ~IndexedTarget(e) /\ ResultsOf(e) # {}
    /\ \E i \in 1..Len(searchResults) : searchResults[i].Dependencies # NoDeps

(***************************************************************************)
(* The command gen, as the claims read it.                                 *)
(***************************************************************************)
\* the command has run and returned no error
Generated == cmd = "gen" /\ pc = "done" /\ genErr = <<>>

\* the command has run and returned the error that the path was not found
PathNotFoundReturned ==
    cmd = "gen" /\ pc = "done"
    /\ genErr = <<"f", "a", "i", "l", "e", "d", " ", "t", "o", " ", "g", "e", "n", "e", "r", "a", "t", "e", " ", "t", "e", "m", "p", "l", "a", "t", "e", ":", " ">> \o PathNotFound(modelPath)

\* the entry reached from the module entry by the names of the segments
RECURSIVE DescendByNames(_, _)
DescendByNames(e, names) ==
    IF names = <<>> THEN e
    ELSE IF \E c \in schema[e].Dir : schema[c].Name = Head(names)
    THEN DescendByNames(CHOOSE c \in schema[e].Dir : schema[c].Name = Head(names), Tail(names))
    ELSE Nil

\* the entries at and below entry e
RECURSIVE Subtree(_)
Subtree(e) == {e} \cup UNION {Subtree(c) : c \in schema[e].Dir}

\* the names on the way from entry t down to entry e of its subtree
RECURSIVE NamesBetween(_, _)
NamesBetween(t, e) == IF e = t THEN <<>> ELSE Append(NamesBetween(t, ParentOf(e)), schema[e].Name)

\* the value found in val by following the names through nested mappings
RECURSIVE ValueAt(_, _)
ValueAt(val, names) ==
    IF names = <<>> THEN val
    ELSE IF val.t = "map" /\ Head(names) \in DOMAIN val.v THEN ValueAt(val.v[Head(names)], Tail(names))
    ELSE NilValue

IsListNode(e) == schema[e].ListAttr /\ schema[e].Kind # "LeafEntry"

HasString(val, key, str) ==
    /\ val.t = "map"
    /\ key \in DOMAIN val.v
    /\ val.v[key].t = "string"
    /\ val.v[key].v = str

\* val is the template of the list e: _type is "list" and _list_item_example
\* has a key for every child of e and no other
IsListTemplate(val, e) ==
    /\ HasString(val, <<"_", "t", "y", "p", "e">>, <<"l", "i", "s", "t">>)
    /\ <<"_", "l", "i", "s", "t", "_", "i", "t", "e", "m", "_", "e", "x", "a", "m", "p", "l", "e">> \in DOMAIN val.v
    /\ val.v[<<"_", "l", "i", "s", "t", "_", "i", "t", "e", "m", "_", "e", "x", "a", "m", "p", "l", "e">>].t = "map"
    /\ DOMAIN val.v[<<"_", "l", "i", "s", "t", "_", "i", "t", "e", "m", "_", "e", "x", "a", "m", "p", "l", "e">>].v = {schema[c].Name : c \in schema[e].Dir}

\* the formats that print the template as generateTemplate made it
PlainFormat == ToLower(outputFormat) \in {<<"j", "s", "o", "n">>, <<"y", "a", "m", "l">>}

\* the node the command resolved the model path to
Target == genEntry

\* the value the template holds for entry e at or below the target: the
\* template itself or its entry under the name of the target when e is the
\* target, and the value under the names from the target down to e otherwise
ValuesFor(e) ==
    IF e = Target
    THEN {genTemplate, ValueAt(genTemplate, <<schema[e].Name>>)}
    ELSE {ValueAt(genTemplate, NamesBetween(Target, e)),
          ValueAt(genTemplate, <<schema[Target].Name>> \o NamesBetween(Target, e))}

(***************************************************************************)
(* C15: the template generated for a list node, be it the target of the    *)
(* model path or a node below the target, is a mapping with _type = "list" *)
(* and with a _list_item_example whose keys are the names of the children  *)
(* of the list.                                                            *)
(***************************************************************************)
C15_ListTemplate ==
    (Generated /\ PlainFormat) =>
        \A e \in Subtree(Target) :
            IsListNode(e) => \E val \in ValuesFor(e) : IsListTemplate(val, e)

\* the documents the command wrote, to the output stream and to the file
Written == stdout \o outFile

\* val is the sequence of the strings strs
IsStrings(val, strs) ==
    /\ val.t = "slice"
    /\ Len(val.v) = Len(strs)
    /\ \A i \in DOMAIN strs : val.v[i].t = "string" /\ val.v[i].v = strs[i]

(***************************************************************************)
(* C16: when the model path ends at a list node L, the JSON document is a  *)
(* mapping with the single key L.name, and the value under it is the       *)
(* template of the list: _type "list", _keys the keys of L and             *)
(* _list_item_example with the children of L.                              *)
(***************************************************************************)
C16_ListTargetUnderItsName ==
    (Generated /\ ToLower(outputFormat) = <<"j", "s", "o", "n">> /\ IsListNode(Target)) =>
        /\ Len(Written) = 1
        /\ Written[1].encoding = "json"
        /\ Written[1].value.t = "map"
        /\ DOMAIN Written[1].value.v = {schema[Target].Name}
        /\ IsListTemplate(Written[1].value.v[schema[Target].Name], Target)
        /\ <<"_", "k", "e", "y", "s">> \in DOMAIN Written[1].value.v[schema[Target].Name].v
        /\ IsStrings(Written[1].value.v[schema[Target].Name].v[<<"_", "k", "e", "y", "s">>],
                     Fields(schema[Target].Key))

\* the entries from the module entry down to entry e
RECURSIVE WayTo(_)
WayTo(e) == IF e = 1 THEN {1} ELSE WayTo(ParentOf(e)) \cup {e}

\* the model path is the path of its target with a [k=<key>] predicate for
\* every key of every list on the way, and there is such a key
CarriesPlaceholders ==
    /\ Target # Nil
    /\ modelPath = ReportedPath(Target)
    /\ \E e \in WayTo(Target) \ {1} : schema[e].ListAttr /\ Fields(schema[e].Key) # <<>>

\* the keys the predicates of the model path name
KeysOfPath ==
    UNION {{Fields(schema[e].Key)[i] : i \in DOMAIN Fields(schema[e].Key)} :
              e \in {l \in WayTo(Target) \ {1} : schema[l].ListAttr}}

\* some mapping of val, val itself or one nested in it, has an entry called name
RECURSIVE Mentions(_, _)
Mentions(val, name) ==
    /\ val.t = "map"
    /\ \/ name \in DOMAIN val.v
       \/ \E k \in DOMAIN val.v : Mentions(val.v[k], name)

\* the one entry of spec.config of the resource the command wrote
ConfigEntry == Written[1].value.spec.config[1]

(***************************************************************************)
(* C17: in the sdc-conf format, when the model path carries key            *)
(* placeholders, no mapping of the emitted value tree, at the top or       *)
(* nested, has an entry named after a key of the path, and the path field  *)
(* of the configuration entry is the model path as it was given, with its  *)
(* [k=<key>] predicates.                                                   *)
(***************************************************************************)
C17_PathKeysAbsentFromValue ==
    (Generated /\ outputFormat = <<"s", "d", "c", "-", "c", "o", "n", "f">> /\ CarriesPlaceholders) =>
        /\ Len(Written) = 1
        /\ Len(Written[1].value.spec.config) = 1
        /\ ConfigEntry.path = modelPath
        /\ Contains(ConfigEntry.path, KeyPlaceholder \o <<"]">>)
        /\ \A k \in KeysOfPath : ~Mentions(ConfigEntry.value, k)

\* the path is /a/b[k=<key>]: the template of b has the key k at the top and
\* in the nested mapping c, and the value written keeps c without it
C17_Witness ==
    /\ Generated /\ outputFormat = <<"s", "d", "c", "-", "c", "o", "n", "f">> /\ CarriesPlaceholders
    /\ modelPath = <<"/", "a", "/", "b", "[", "k", "=", "<", "k", "e", "y", ">", "]">>
    /\ <<"k">> \in KeysOfPath
    /\ <<"k">> \in DOMAIN generateTemplate(schema, Target, order).v
    /\ Mentions(ValueAt(generateTemplate(schema, Target, order), <<<<"c">>>>), <<"k">>)
    /\ DOMAIN ConfigEntry.value.v = {<<"c">>}
    /\ DOMAIN ConfigEntry.value.v[<<"c">>].v = {<<"d">>}

\* the command got as far as looking the model path up in the module
Resolved ==
    /\ cmd = "gen" /\ pc = "done"
    /\ yangExists /\ HasPrefix(yangPath, schema[1].Name)
    /\ ToLower(outputFormat) \in {<<"j", "s", "o", "n">>, <<"y", "a", "m", "l">>, <<"x", "m", "l">>, <<"s", "d", "c", "-", "c", "o", "n", "f">>}

\* "/name/name/..." for the entries below the module entry down to e
RECURSIVE PlainPathBelowModule(_)
PlainPathBelowModule(e) ==
    IF e = 1 THEN <<>>
    ELSE PlainPathBelowModule(ParentOf(e)) \o <<"/">> \o schema[e].Name

PlainPath(e) == IF e = 1 THEN <<"/">> ELSE PlainPathBelowModule(e)

(***************************************************************************)
(* C18: the path search-for prints for a node of the schema, without the   *)
(* module name and with the [k=<key>] placeholders of the lists on the     *)
(* way, is accepted as the model path of gen on the same schema and        *)
(* resolves to that node, as the path of the names alone does.             *)
(***************************************************************************)
C18_SearchPathResolves ==
    Resolved =>
        \A e \in Entries :
            modelPath \in {ReportedPath(e), PlainPath(e)} => genErr = <<>> /\ genEntry = e

\* the path has the placeholder of a list with one key and that of a list
\* with two keys, and names a leaf below both
C18_Witness ==
    /\ Resolved
    /\ \E e \in Entries :
          /\ modelPath = ReportedPath(e)
          /\ modelPath # PlainPath(e)
          /\ genEntry = e
          /\ schema[e].Dir = {}
          /\ \E l, t \in WayTo(e) \ {1, e} :
                /\ t \in schema[l].Dir
                /\ Len(Fields(schema[l].Key)) = 1
                /\ Len(Fields(schema[t].Key)) = 2
    /\ stripKeysFromPath(modelPath) = <<"/", "l", "/", "t", "/", "t", "a", "c">>

\* the names of the cleaned model path: the key expressions and the outer
\* slashes removed, split on "/"
CleanedNames ==
    LET cleaned == Trim(StripPredicates(modelPath, FALSE), {"/"})
    IN  IF cleaned = <<>> THEN <<>> ELSE SplitOn(cleaned, "/")

(***************************************************************************)
(* C19: when a segment of the cleaned model path names no child, or the    *)
(* descent comes to a node without children before the path ends, gen      *)
(* returns the error that the path was not found and writes nothing to the *)
(* output file and nothing to the output stream; the root path and the     *)
(* empty path resolve to the root node.                                    *)
(***************************************************************************)
C19_PathNotFoundWritesNothing ==
    Resolved =>
        /\ DescendByNames(1, CleanedNames) = Nil =>
              PathNotFoundReturned /\ stdout = <<>> /\ outFile = <<>>
        /\ modelPath \in {<<>>, <<"/">>} => genErr = <<>> /\ genEntry = 1

\* the path goes on below a leaf and an output file is named
C19_Witness ==
    /\ Resolved
    /\ outputFile # <<>>
    /\ \E e \in Entries \ {1} :
          /\ schema[e].Dir = {}
          /\ modelPath = Trim(ReportedPath(e), {"/"}) \o <<"/", "x">>
          /\ DescendByNames(1, CleanedNames) = Nil
    /\ PathNotFoundReturned
    /\ stdout = <<>> /\ outFile = <<>>

(***************************************************************************)
(* C20: in every format gen accepts (json, yaml, xml, sdc-conf), the       *)
(* document is written to the output file and nothing to the output stream *)
(* when an output file is named, and to the output stream when none is.    *)
(***************************************************************************)
C20_DocumentToOneSink ==
    (Resolved /\ Generated) =>
        IF outputFile # <<>>
        THEN stdout = <<>> /\ Len(outFile) = 1
        ELSE outFile = <<>> /\ Len(stdout) = 1

\* the selector, in lower case, is one of the formats gen accepts
AcceptedFormat == ToLower(outputFormat) \in {<<"j", "s", "o", "n">>, <<"y", "a", "m", "l">>, <<"x", "m", "l">>, <<"s", "d", "c", "-", "c", "o", "n", "f">>}

\* nothing was generated and nothing was written
NothingGenerated == genEntry = Nil /\ genTemplate = NilValue /\ stdout = <<>> /\ outFile = <<>>

(***************************************************************************)
(* C21: gen with a non-empty --yang and a format selector outside json,    *)
(* yaml, xml and sdc-conf returns the error "invalid output format",       *)
(* whether the file named by --yang exists or not, and generates and       *)
(* writes nothing.                                                         *)
(***************************************************************************)
C21_InvalidFormatRejected ==
    (cmd = "gen" /\ pc = "done" /\ yangPath # <<>> /\ ~AcceptedFormat) =>
        /\ HasPrefix(genErr, <<"i", "n", "v", "a", "l", "i", "d", " ", "o", "u", "t", "p", "u", "t", " ", "f", "o", "r", "m", "a", "t">>)
        /\ NothingGenerated

(***************************************************************************)
(* C22: every leaf of the blame tree is examined once, and the full path   *)
(* matched against the path pattern is the names of its ancestors from the *)
(* root down followed by its own name, joined with "/": no name of a       *)
(* sibling or of a branch visited earlier is in it, although the path      *)
(* slice is extended with append and handed to all children.               *)
(***************************************************************************)
C22_FullPathIsAncestorChain ==
    (cmd = "blame" /\ pc = "done" /\ filter.Path # <<>>) =>
        /\ \A i \in DOMAIN examined :
              /\ examined[i][1] \in SourceNodes
              /\ IsLeaf(examined[i][1])
              /\ examined[i][2] = Join(NamePath(heap, tree, examined[i][1]), <<"/">>)
        /\ \A a \in SourceNodes :
              IsLeaf(a) => Cardinality({i \in DOMAIN examined : examined[i][1] = a}) = 1

\* a leaf four names deep is examined after a leaf of an earlier branch
\* that has the same first three names and another fourth one: append
\* writes the fourth name of both into the same slot
C22_Witness ==
    /\ cmd = "blame" /\ pc = "done" /\ filter.Path # <<>>
    /\ \E i, j \in DOMAIN examined :
          LET p == NamePath(heap, tree, examined[i][1])
              q == NamePath(heap, tree, examined[j][1])
          IN  /\ i < j
              /\ Len(p) > 4 /\ Len(q) = 4
              /\ SubSeq(p, 1, 3) = SubSeq(q, 1, 3)
              /\ p[4] # q[4]
              /\ examined[j][2] = Join(q, <<"/">>)


\* the entries from the module entry down to entry e
RECURSIVE ChainTo(_)
ChainTo(e) == IF e = 1 THEN <<1>> ELSE Append(ChainTo(ParentOf(e)), e)

KeyedList(e) == schema[e].Name # <<>> /\ schema[e].ListAttr /\ schema[e].Key # <<>>

\* one binding per keyed list among chain[i], chain[i+1], ..., each at the
\* level of the last entry of the chain
RECURSIVE BindingsFrom(_, _)
BindingsFrom(chain, i) ==
    IF i > Len(chain) THEN <<>>
    ELSE (IF KeyedList(chain[i])
          THEN <<[ListPath |-> EntryPath(chain[i]),
                  KeyNames |-> Fields(schema[chain[i]].Key),
                  Level |-> Len(chain) - i]>>
          ELSE <<>>) \o BindingsFrom(chain, i + 1)

KeyBindings(e) == BindingsFrom(ChainTo(e), 1)

(***************************************************************************)
(* C23: at every entry the dependency-aware walk visits, the context holds *)
(* exactly the path segments of the chain from the root to that entry and  *)
(* one key binding per keyed list on that chain, in that order, each at    *)
(* the level that counts the descents from its list to the entry; the      *)
(* required keys a result holds when the walk is over are those bindings.  *)
(***************************************************************************)
C23_ContextIsRootToNodeChain ==
    (Searched /\ includeDependencies) =>
        /\ \A e \in Entries : Cardinality({i \in DOMAIN visited : visited[i].entry = e}) = 1
        /\ \A i \in DOMAIN visited :
              /\ visited[i].pathParts = EntryPathParts(visited[i].entry)
              /\ visited[i].listKeys = KeyBindings(visited[i].entry)
        /\ \A e \in Entries :
              \A i \in ResultsOf(e) :
                 IF searchResults[i].Dependencies = NoDeps
                 THEN KeyBindings(e) = <<>>
                 ELSE searchResults[i].Dependencies[1].RequiredKeys = KeyBindings(e)

\* a keyed list of another branch was visited before an entry under a keyed
\* list of its own, that entry is in the results and the walk went on
C23_Witness ==
    /\ Searched
    /\ includeDependencies
    /\ \E i, j \in DOMAIN visited :
          /\ i < j
          /\ j < Len(visited)
          /\ KeyedList(visited[i].entry)
          /\ \A k \in DOMAIN ChainTo(visited[j].entry) :
                ChainTo(visited[j].entry)[k] # visited[i].entry
          /\ Len(visited[j].listKeys) >= 1
          /\ visited[j].listKeys[1].Level >= 1
          /\ ResultsOf(visited[j].entry) # {}

\* the names that lead from the template to the value of entry e of the
\* target's subtree: a case has no name of its own in the value of its choice
RECURSIVE PlaceOf(_)
PlaceOf(e) ==
    IF e = Target THEN <<>>
    ELSE IF schema[ParentOf(e)].Kind = "ChoiceEntry" THEN PlaceOf(ParentOf(e))
    ELSE Append(PlaceOf(ParentOf(e)), schema[e].Name)

\* the value of entry e is in the template at PlaceOf(e): from the target
\* down to e there are containers, lists, cases and choices whose first case
\* in this run is on the way
RECURSIVE Placed(_)
Placed(e) ==
    \/ e = Target
    \/ /\ Placed(ParentOf(e))
       /\ \/ schema[ParentOf(e)].Kind \in {"DirectoryEntry", "CaseEntry"}
          \/ /\ schema[ParentOf(e)].Kind = "ChoiceEntry"
             /\ order[ParentOf(e)][1] = e

IsContainer(e) == schema[e].Kind = "DirectoryEntry" /\ ~schema[e].ListAttr

ChildNames(e) == {schema[c].Name : c \in schema[e].Dir}

\* val is a mapping with one key per child of e and no other
IsMappingOfChildren(val, e) == val.t = "map" /\ DOMAIN val.v = ChildNames(e)

FirstDeclaredCase(e) == CHOOSE c \in schema[e].Dir : \A d \in schema[e].Dir : c <= d

(***************************************************************************)
(* C25: the value generated for a choice with two or more cases is the     *)
(* content of the case declared first in the schema document, without a    *)
(* wrapper: the mapping of the children of that case.                      *)
(***************************************************************************)
C25_ChoiceFirstDeclaredCase ==
    (Generated /\ PlainFormat) =>
        \A e \in Subtree(Target) :
            (Placed(e) /\ schema[e].Kind = "ChoiceEntry" /\ Cardinality(schema[e].Dir) >= 2)
                => IsMappingOfChildren(ValueAt(genTemplate, PlaceOf(e)), FirstDeclaredCase(e))

\* the value the template holds for the leaf or leaf-list e
LeafValue(e) ==
    IF e = Target THEN ValueAt(genTemplate, <<schema[e].Name>>)
    ELSE ValueAt(genTemplate, PlaceOf(e))

\* the inline comment for the constraint the type of entry e declares
ConstraintComment(e) ==
    IF schema[e].Type.Range # <<>>
    THEN <<"<", "!", "-", "-", " ", "r", "a", "n", "g", "e", ":", " ">> \o schema[e].Type.Range \o <<" ", "-", "-", ">">>
    ELSE <<"<", "!", "-", "-", " ", "p", "a", "t", "t", "e", "r", "n", ":", " ">> \o schema[e].Type.Pattern[1] \o <<" ", "-", "-", ">">>

Constrained(e) ==
    /\ schema[e].Kind = "LeafEntry"
    /\ schema[e].Type # NoType
    /\ (schema[e].Type.Range # <<>> \/ schema[e].Type.Pattern # <<>>)

Annotated(val, e) == val.t = "string" /\ Contains(val.v, ConstraintComment(e))

(***************************************************************************)
(* C26: the scalar generated for a leaf whose type declares a range or a   *)
(* pattern carries that constraint in an inline comment, and so does the   *)
(* single element of the sequence generated for such a leaf-list.          *)
(***************************************************************************)
C26_ConstraintAnnotated ==
    (Generated /\ PlainFormat) =>
        \A e \in Subtree(Target) :
            (Constrained(e) /\ (e = Target \/ Placed(e))) =>
                IF schema[e].ListAttr
                THEN /\ LeafValue(e).t = "slice"
                     /\ Len(LeafValue(e).v) = 1
                     /\ Annotated(LeafValue(e).v[1], e)
                ELSE Annotated(LeafValue(e), e)

\* the options of this run with the format selector written in lower case
LowerCaseOptions == [GenOptions EXCEPT !.outputFormat = ToLower(@)]

(***************************************************************************)
(* C27: the format selector is case-insensitive throughout: a run with an  *)
(* accepted selector written in upper or mixed case returns and writes     *)
(* what a run with the same selector in lower case, on the same inputs     *)
(* and with the same orders of iteration, can return and write.            *)
(***************************************************************************)
C27_FormatCaseInsensitive ==
    (cmd = "gen" /\ pc = "done" /\ AcceptedFormat) =>
        \E out \in RunE(LowerCaseOptions, schema, yangExists, order) :
            /\ out.err = genErr
            /\ out.stdout = stdout
            /\ out.file = outFile

\* e is a key leaf of a list the model path names: a list on the way to the
\* target, the target included
KeyLeafOfPath(e) ==
    /\ e # 1
    /\ ParentOf(e) \in WayTo(Target)
    /\ schema[ParentOf(e)].ListAttr
    /\ \E i \in DOMAIN Fields(schema[ParentOf(e)].Key) :
          Fields(schema[ParentOf(e)].Key)[i] = schema[e].Name

\* the template has an entry for e, an entry at or below the target
HasEntryFor(e) ==
    IF e = Target
    THEN schema[e].Kind = "LeafEntry" => ValueAt(genTemplate, <<schema[e].Name>>) # NilValue
    ELSE ValueAt(genTemplate, PlaceOf(e)) # NilValue

(***************************************************************************)
(* C28: in the sdc-conf and xml formats, the only entries the removal of   *)
(* the path keys takes out of the template are the key leaves of the lists *)
(* the path names: every other entry at or below the target keeps its      *)
(* entry, also when its name is the name of a key, and the value for a     *)
(* path that ends at a leaf holds that leaf.                               *)
(***************************************************************************)
C28_OnlyKeyLeavesRemoved ==
    (Generated /\ outputFormat \in {<<"s", "d", "c", "-", "c", "o", "n", "f">>, <<"x", "m", "l">>}) =>
        \A e \in Subtree(Target) :
            ((e = Target \/ Placed(e)) /\ ~KeyLeafOfPath(e)) => HasEntryFor(e)

\* the segments of the model path as they are written, brackets included
WrittenSegments ==
    IF Trim(modelPath, {"/"}) = <<>> THEN <<>> ELSE SplitOn(Trim(modelPath, {"/"}), "/")

\* the key-valued tags for the keys written in the bracket of segment seg,
\* as lines below a tag at depth
OwnKeyTags(seg, depth) ==
    IF BeforeBracket(seg) = seg THEN <<>>
    ELSE LET inner == SubSeq(seg, Len(BeforeBracket(seg)) + 2, Len(seg) - 1)
             pairs == SplitOn(inner, ",")
         IN  [i \in DOMAIN pairs |->
                 Indent(depth) \o <<" ", "<">> \o SplitOn(pairs[i], "=")[1] \o <<">">>
                 \o Trim(SplitOn(pairs[i], "=")[2], {"<", ">"})
                 \o <<"<", "/">> \o SplitOn(pairs[i], "=")[1] \o <<">">>]

\* line is an element on one line: <name>text</name>
IsValuedTag(line) ==
    /\ TrimLeft(line, {" "}) # <<>>
    /\ Head(TrimLeft(line, {" "})) = "<"
    /\ Tail(TrimLeft(line, {" "})) # <<>>
    /\ Head(Tail(TrimLeft(line, {" "}))) # "/"
    /\ Contains(line, <<"<", "/">>)

\* the number of one-line elements in a row from line pos of doc on
RECURSIVE ValuedTagRun(_, _)
ValuedTagRun(doc, pos) ==
    IF pos <= Len(doc) /\ IsValuedTag(doc[pos]) THEN 1 + ValuedTagRun(doc, pos + 1) ELSE 0

\* the number of segments the document has a tag for: the last segment has
\* none of its own when the data holds an entry under its name
SegmentTagCount ==
    IF /\ WrittenSegments # <<>>
       /\ genTemplate.t = "map"
       /\ BeforeBracket(WrittenSegments[Len(WrittenSegments)]) \in DOMAIN genTemplate.v
    THEN Len(WrittenSegments) - 1
    ELSE Len(WrittenSegments)

\* from line pos of doc on, the tag of every segment from the i-th on that
\* the document nests there is followed by the key tags of its own bracket
\* and by no other key tag
RECURSIVE SegmentTagsOwnKeys(_, _, _)
SegmentTagsOwnKeys(doc, pos, i) ==
    IF i > SegmentTagCount \/ pos > Len(doc) THEN TRUE
    ELSE IF doc[pos] # Indent(i) \o <<"<">> \o BeforeBracket(WrittenSegments[i]) \o <<">">> THEN FALSE
    ELSE LET run == ValuedTagRun(doc, pos + 1)
         IN  /\ SubSeq(doc, pos + 1, pos + run) = OwnKeyTags(WrittenSegments[i], i)
             /\ SegmentTagsOwnKeys(doc, pos + 1 + run, i + 1)

(***************************************************************************)
(* C29: in the xml document, the tag of each segment of the model path is  *)
(* followed by one key-valued tag for each key written in that segment's   *)
(* own bracket and by no other: none for a segment without a bracket, and  *)
(* its own keys for each of two segments of the same name.                 *)
(***************************************************************************)
C29_SegmentKeysFromOwnBracket ==
    (Generated /\ outputFormat = <<"x", "m", "l">>) =>
        /\ Len(Written) = 1
        /\ SegmentTagsOwnKeys(Written[1].value, 2, 1)


(***************************************************************************)
(* C30: every path printed in the search output, given verbatim as the     *)
(* keyword of a search on the same schema, matches the node it was printed *)
(* for: the results of that search include a result of that node, whose    *)
(* printed path is the keyword.  FALSE in the code: the keyword is         *)
(* compiled between ^ and $ and matched against the path that still        *)
(* starts with the module name, and a [k=<key>] placeholder compiles to a  *)
(* character class.                                                        *)
(***************************************************************************)
\* the entries of the schema whose printed path is the keyword of this run
PrintedAs(path) == {e \in Entries : PrintedPath(schema, e) = path}

C30_PrintedPathFindsItsNode ==
    Searched =>
        \A e \in PrintedAs(keyword) :
            \E i \in ResultsOf(e) :
                RemoveModulePrefix(searchResults[i].Path, schema[1].Name) = keyword

==========================================================================
